---- MODULE Spec2Model ----
(***************************************************************************)
(* Relation-propagation engine of the logic-grid solver: problem.py (the   *)
(* Problem, its four structural passes, clue processing and the fixpoint   *)
(* orchestrator), clue.py (the clue solvers) and the gui.py callbacks that *)
(* drive them.                                                             *)
(***************************************************************************)
EXTENDS Integers, Sequences, FiniteSets, TLC

\* problem.py RelationState / clue.py POSITIVE, NEGATIVE, NEUTRAL
NEUTRAL == ""
POSITIVE == "+"
NEGATIVE == "-"
RelationState == {NEUTRAL, POSITIVE, NEGATIVE}

\* range(n)
Range(n) == 0 .. (n - 1)

\* the one element of a set that has one.  A local variable assigned once
\* is written The({body : x \in {value}}): x holds the value computed at the
\* assignment, and every read of x in body reads that value.
The(S) == CHOOSE y \in S : TRUE

\* len(table) / len(combined_table)
Size(f) == Cardinality(DOMAIN f)

\* A list as the program stores it: every element computed once when the
\* list is built, not recomputed from the list it was derived from at each
\* read. Row is one list, Table a list of rows, Tensor the n_cat x n_cat
\* lists of tables.
Row(line) == line @@ line
Table(table) == Row([i \in DOMAIN table |-> Row(table[i])])
Tensor(t) == Row([x \in DOMAIN t |-> Row([y \in DOMAIN t[x] |-> Table(t[x][y])])])

(***************************************************************************)
(* Exactly-one elimination                                                 *)
(***************************************************************************)

\* Problem.count_types: <<n_pos, n_neg, n_neu>> of a row or a column
count_types(line) ==
  << Cardinality({i \in DOMAIN line : line[i] # NEUTRAL /\ line[i] # NEGATIVE}),
     Cardinality({i \in DOMAIN line : line[i] = NEGATIVE}),
     Cardinality({i \in DOMAIN line : line[i] = NEUTRAL}) >>

\* the `continue` test without its n_pos < 1: a line is left alone unless
\* all its cells but one are Negative
line_skipped_unless_last(line, n_item) ==
  \E c \in {count_types(line)} :
    c[1] + c[2] = n_item \/ c[2] < n_item - 1

\* the `continue` test of step_apply_exactly_one_logic (lines 120, 132)
line_skipped(line, n_item) ==
  \E c \in {count_types(line)} :
    c[1] + c[2] = n_item \/ (c[1] < 1 /\ c[2] < n_item - 1)

\* the write loop without its test that the cell is Neutral
line_exactly_one_overwriting(line, n_item) ==
  The({
    IF line_skipped(line, n_item) THEN line
    ELSE [i \in DOMAIN line |->
            IF c[1] = 1 THEN NEGATIVE
            ELSE IF c[2] = n_item - 1 THEN POSITIVE
            ELSE line[i]]
    : c \in {count_types(line)} })

\* the write loop over one row or column (lines 123-129, 135-141)
line_exactly_one(line, n_item) ==
  The({
    IF line_skipped(line, n_item) THEN line
    ELSE [i \in DOMAIN line |->
            IF line[i] # NEUTRAL THEN line[i]
            ELSE IF c[1] = 1 THEN NEGATIVE
            ELSE IF c[2] = n_item - 1 THEN POSITIVE
            ELSE line[i]]
    : c \in {count_types(line)} })

\* one element of zip(*table)
Column(table, j) == [i \in DOMAIN table |-> table[i][j]]

\* the tables the row loop and then the column loop of
\* step_apply_exactly_one_logic leave (the second one transposed)
exactly_one_rows(table) ==
  Table([i \in DOMAIN table |-> line_exactly_one(table[i], Size(table))])
exactly_one_cols(rows) ==
  Table([j \in DOMAIN rows |-> line_exactly_one(Column(rows, j), Size(rows))])

\* Problem.step_apply_exactly_one_logic: all rows, then all columns of the
\* table the rows left; changed is set by every row or column not skipped.
step_apply_exactly_one_logic(table) ==
  The({
    The({
      [table   |-> Table([i \in DOMAIN table |-> [j \in DOMAIN table |-> cols[j][i]]]),
       changed |-> \/ \E i \in DOMAIN table : ~line_skipped(table[i], Size(table))
                   \/ \E j \in DOMAIN table : ~line_skipped(Column(rows, j), Size(table))]
      : cols \in {exactly_one_cols(rows)} })
    : rows \in {exactly_one_rows(table)} })

\* the while loop of apply_exactly_one_logic on one table (lines 151-154).
\* The step is a function of the table alone, so an iteration that reports a
\* change and leaves the table as it was repeats forever: hangs.
RECURSIVE exactly_one_loop(_, _)
exactly_one_loop(table, any_changed) ==
  The({
    IF ~s.changed THEN [table |-> s.table, changed |-> any_changed, hangs |-> FALSE]
    ELSE IF s.table = table THEN [table |-> table, changed |-> TRUE, hangs |-> TRUE]
    ELSE exactly_one_loop(s.table, TRUE)
    : s \in {step_apply_exactly_one_logic(table)} })

\* Problem.apply_exactly_one_logic: every table of the tensor on its own
apply_exactly_one_logic(combined_table) ==
  The({
    [t       |-> Tensor([x \in DOMAIN res |-> [y \in DOMAIN res |-> res[x][y].table]]),
     changed |-> \E x \in DOMAIN res, y \in DOMAIN res : res[x][y].changed,
     hangs   |-> \E x \in DOMAIN res, y \in DOMAIN res : res[x][y].hangs]
    : res \in {Row([x \in DOMAIN combined_table |->
                      Row([y \in DOMAIN combined_table |->
                             exactly_one_loop(combined_table[x][y], FALSE)])])} })

(***************************************************************************)
(* Transposition / equivalence propagation                                 *)
(***************************************************************************)

\* a branch without the writes of lines 169-171 and 182-184: the relation is
\* copied to the cell of (dst, rd) and not to the transposed cell
transposition_branch_one_way(t, src, dst, rs, rd) ==
  Tensor([x \in DOMAIN t |-> [y \in DOMAIN t |->
    [a \in DOMAIN t[src][src] |-> [b \in DOMAIN t[src][src] |->
        IF x = dst /\ y # src /\ y # dst /\ a = rd
           /\ t[x][y][a][b] = NEUTRAL /\ t[src][y][rs][b] # NEUTRAL
        THEN t[src][y][rs][b]
        ELSE t[x][y][a][b]]]]])

\* one branch of step_apply_transposition_logic (lines 160-172 or 173-185):
\* every known relation of (src, rs) to a third category j is copied to
\* (dst, rd), and to the transposed cell, where the target is Neutral.
transposition_branch(t, src, dst, rs, rd) ==
  Tensor([x \in DOMAIN t |-> [y \in DOMAIN t |->
    [a \in DOMAIN t[src][src] |-> [b \in DOMAIN t[src][src] |->
        IF x = dst /\ y # src /\ y # dst /\ a = rd
           /\ t[x][y][a][b] = NEUTRAL /\ t[src][y][rs][b] # NEUTRAL
        THEN t[src][y][rs][b]
        ELSE IF y = dst /\ x # src /\ x # dst /\ b = rd
                /\ t[x][y][a][b] = NEUTRAL /\ t[src][x][rs][a] # NEUTRAL
        THEN t[src][x][rs][a]
        ELSE t[x][y][a][b]]]]])

\* Problem.step_apply_transposition_logic for match = <<i, j, k, l>>: the
\* rows of the tensor are visited in order, so the branch of the smaller of
\* match[0], match[1] runs first and the other reads what it wrote.
step_apply_transposition_logic(combined_table, match) ==
  The({
    [t |-> out, changed |-> out # combined_table]
    : out \in {
        IF match[1] = match[2]
        THEN transposition_branch(combined_table, match[1], match[2], match[3], match[4])
        ELSE IF match[1] < match[2]
        THEN The({ transposition_branch(mid, match[2], match[1], match[4], match[3])
                   : mid \in {transposition_branch(combined_table, match[1], match[2],
                                                   match[3], match[4])} })
        ELSE The({ transposition_branch(mid, match[1], match[2], match[3], match[4])
                   : mid \in {transposition_branch(combined_table, match[2], match[1],
                                                   match[4], match[3])} }) } })

\* the while loop of apply_transposition_logic on one match (lines 206-209):
\* changed is what the first step reported (any_changed is set in the loop)
RECURSIVE transposition_loop(_, _)
transposition_loop(t, match) ==
  The({
    IF ~s.changed THEN [t |-> t, changed |-> FALSE]
    ELSE [t |-> transposition_loop(s.t, match).t, changed |-> TRUE]
    : s \in {step_apply_transposition_logic(t, match)} })

\* the tuples of a set in the order nested for loops over their components
\* visit them (lexicographic)
RECURSIVE LoopOrder(_)
LoopOrder(tuples) ==
  The({
    IF S = {} THEN <<>>
    ELSE The({ <<m>> \o LoopOrder(S \ {m})
               : m \in {CHOOSE m \in S : \A o \in S :
                          \/ m = o
                          \/ \E p \in 1..Len(m) : /\ \A q \in 1..(p-1) : m[q] = o[q]
                                                  /\ m[p] < o[p]} })
    : S \in {tuples} })

\* the scan of the lower triangle (lines 194-201), in list order
positive_relations(combined_table) ==
  LoopOrder({m \in (DOMAIN combined_table) \X (DOMAIN combined_table)
                   \X (DOMAIN combined_table[0][0]) \X (DOMAIN combined_table[0][0]) :
               m[2] < m[1] /\ combined_table[m[1]][m[2]][m[3]][m[4]] = POSITIVE})

\* the for loop over positive_relations (lines 205-209)
RECURSIVE transposition_fold(_, _, _)
transposition_fold(t, matches, any_changed) ==
  IF matches = <<>> THEN [t |-> t, changed |-> any_changed]
  ELSE The({
         IF r.changed THEN transposition_fold(r.t, rest, TRUE)
         ELSE transposition_fold(r.t, rest, any_changed)
         : r \in {transposition_loop(t, Head(matches))}, rest \in {Tail(matches)} })

\* Problem.apply_transposition_logic
apply_transposition_logic(combined_table) ==
  The({ transposition_fold(combined_table, matches, FALSE)
        : matches \in {positive_relations(combined_table)} })

(***************************************************************************)
(* Pseudo-true subset elimination                                          *)
(***************************************************************************)

Transpose(table) == Table([i \in DOMAIN table |-> [j \in DOMAIN table |-> table[j][i]]])

\* the candidate rows (lines 217-225): no row with exactly one Positive, at
\* least 2 and at most n_item / 2 Neutral cells
pseudo_true_candidates(table) ==
  {i \in DOMAIN table :
     \E c \in {count_types(table[i])} :
       ~(c[1] = 1 \/ c[3] <= 1 \/ 2 * c[3] > Size(table))}

\* the openings list of a candidate row
openings(table, i) == {j \in DOMAIN table : table[i][j] = NEUTRAL}

\* the columns a combination of candidate rows leaves open (lines 240-243)
combo_cols(table, S) == UNION {openings(table, i) : i \in S}

\* the cells of a tier without the test of line 244: the rows of a
\* combination need not be covered by as many columns
pseudo_true_targets_uncovered(table0, n_open) ==
  The({
    {c \in (DOMAIN table0) \X (DOMAIN table0) :
       \E S \in SUBSET cum_rows : /\ Cardinality(S) = n_open
                                  /\ c[1] \notin S
                                  /\ c[2] \in combo_cols(table0, S)}
    : cum_rows \in {{i \in pseudo_true_candidates(table0) :
                       Cardinality(openings(table0, i)) <= n_open}} })

\* the cells one tier of the row search may write (lines 237-250): the
\* candidates and their openings are those collected from table0, before
\* the search wrote anything
pseudo_true_targets(table0, n_open) ==
  The({
    {c \in (DOMAIN table0) \X (DOMAIN table0) :
       \E S \in SUBSET cum_rows : /\ Cardinality(S) = n_open
                                  /\ Cardinality(combo_cols(table0, S)) <= n_open
                                  /\ c[1] \notin S
                                  /\ c[2] \in combo_cols(table0, S)}
    : cum_rows \in {{i \in pseudo_true_candidates(table0) :
                       Cardinality(openings(table0, i)) <= n_open}} })

\* the tier loop without the break of lines 230-231: every tier is searched,
\* whatever the tiers before it eliminated
RECURSIVE pseudo_true_all_tiers(_, _, _)
pseudo_true_all_tiers(table0, table, n_open) ==
  IF 2 * n_open > Size(table0) THEN [table |-> table, hit |-> FALSE]
  ELSE The({ The({
         [table |-> rest.table,
          hit   |-> rest.hit \/ \E c \in targets : table[c[1]][c[2]] = NEUTRAL]
         : rest \in {pseudo_true_all_tiers(table0,
                        Table([i \in DOMAIN table |-> [j \in DOMAIN table |->
                           IF <<i, j>> \in targets /\ table[i][j] = NEUTRAL
                           THEN NEGATIVE ELSE table[i][j]]]),
                        n_open + 1)} })
         : targets \in {pseudo_true_targets(table0, n_open) \cup {}} })

\* the tier loop of the row search (lines 229-252), from tier n_open on
RECURSIVE pseudo_true_tiers(_, _, _)
pseudo_true_tiers(table0, table, n_open) ==
  IF 2 * n_open > Size(table0) THEN [table |-> table, hit |-> FALSE]
  ELSE The({
         IF \E c \in targets : table[c[1]][c[2]] = NEUTRAL
         THEN [table |-> Table([i \in DOMAIN table |-> [j \in DOMAIN table |->
                           IF <<i, j>> \in targets /\ table[i][j] = NEUTRAL
                           THEN NEGATIVE ELSE table[i][j]]]),
               hit   |-> TRUE]
         ELSE pseudo_true_tiers(table0, table, n_open + 1)
         : targets \in {pseudo_true_targets(table0, n_open) \cup {}} })

\* the row search of step_apply_pseudo_true (lines 216-252)
pseudo_true_row_search(table) == pseudo_true_tiers(table, table, 2)

\* Problem.step_apply_pseudo_true: the row search, then the same search over
\* the columns of the table it left
step_apply_pseudo_true(table) ==
  The({
    The({
      The({ [table |-> Transpose(c.table), changed |-> r.hit \/ c.hit]
            : c \in {pseudo_true_row_search(transposed)} })
      : transposed \in {Transpose(r.table)} })
    : r \in {pseudo_true_row_search(table)} })

\* Problem.apply_pseudo_true
apply_pseudo_true(combined_table) ==
  The({
    [t       |-> Tensor([x \in DOMAIN res |-> [y \in DOMAIN res |-> res[x][y].table]]),
     changed |-> \E x \in DOMAIN res, y \in DOMAIN res : res[x][y].changed]
    : res \in {Row([x \in DOMAIN combined_table |->
                      Row([y \in DOMAIN combined_table |->
                             step_apply_pseudo_true(combined_table[x][y])])])} })

(***************************************************************************)
(* Cross-elimination                                                       *)
(***************************************************************************)

\* the scan of one column (lines 305-316, 318-329)
column_has_pos(table, j) == \E i \in DOMAIN table : table[i][j] = POSITIVE
column_neg_idxs(table, j) == {i \in DOMAIN table : table[i][j] = NEGATIVE}

\* step_apply_cross_elimination with the test of line 331 one short: a pair
\* is listed when the Negatives of its columns cover all rows but one
step_apply_cross_elimination_one_short(table_a, table_b) ==
  {p \in (DOMAIN table_a) \X (DOMAIN table_b) :
     /\ ~column_has_pos(table_a, p[1])
     /\ ~column_has_pos(table_b, p[2])
     /\ Cardinality(column_neg_idxs(table_a, p[1]) \cup column_neg_idxs(table_b, p[2]))
          >= Size(table_a) - 1}

\* Problem.step_apply_cross_elimination: the set of the pairs it lists
step_apply_cross_elimination(table_a, table_b) ==
  {p \in (DOMAIN table_a) \X (DOMAIN table_b) :
     /\ ~column_has_pos(table_a, p[1])
     /\ ~column_has_pos(table_b, p[2])
     /\ Cardinality(column_neg_idxs(table_a, p[1]) \cup column_neg_idxs(table_b, p[2]))
          = Size(table_a)}

\* the body of the loop of apply_cross_elimination for one i and (j, k)
\* (lines 343-350)
cross_elimination_write(t, i, j, k) ==
  The({
    IF ~(\E p \in elims : \/ t[j][k][p[1]][p[2]] = NEUTRAL
                          \/ t[k][j][p[2]][p[1]] = NEUTRAL)
    THEN [t |-> t, changed |-> FALSE]
    ELSE [t |-> Tensor([x \in DOMAIN t |-> [y \in DOMAIN t |->
                  [a \in DOMAIN t[i][i] |-> [b \in DOMAIN t[i][i] |->
                     IF x = j /\ y = k /\ <<a, b>> \in elims /\ t[x][y][a][b] = NEUTRAL
                     THEN NEGATIVE
                     ELSE IF x = k /\ y = j /\ <<b, a>> \in elims /\ t[x][y][a][b] = NEUTRAL
                     THEN NEGATIVE
                     ELSE t[x][y][a][b]]]]]),
          changed |-> TRUE]
    : elims \in {step_apply_cross_elimination(t[i][j], t[i][k]) \cup {}} })

RECURSIVE cross_elimination_fold(_, _, _)
cross_elimination_fold(t, triples, any_changed) ==
  IF triples = <<>> THEN [t |-> t, changed |-> any_changed]
  ELSE The({
         IF w.changed THEN cross_elimination_fold(w.t, rest, TRUE)
         ELSE cross_elimination_fold(w.t, rest, any_changed)
         : w \in {cross_elimination_write(t, Head(triples)[1], Head(triples)[2],
                                          Head(triples)[3])},
           rest \in {Tail(triples)} })

\* Problem.apply_cross_elimination: i over the categories, (j, k) over
\* itertools.combinations(range(n_cat), 2), skipping i == j and i == k
apply_cross_elimination(combined_table) ==
  The({ cross_elimination_fold(combined_table, triples, FALSE)
        : triples \in {LoopOrder({c \in (DOMAIN combined_table) \X (DOMAIN combined_table)
                                        \X (DOMAIN combined_table) :
                                    c[2] < c[3] /\ c[1] # c[2] /\ c[1] # c[3]})} })

(***************************************************************************)
(* Clue solvers (clue.py).  A position is <<category, item>>, a query a    *)
(* pair of positions, a query result or a conclusion <<pos1, pos2, val>>.  *)
(* A solver is a record with its kind and the fields its __init__ stores.  *)
(***************************************************************************)

\* list(range(n))
RangeSeq(n) == [k \in 1..n |-> k - 1]

\* the list [f(x), g(x) for x in s], two entries per element
Pairwise(s, f(_), g(_)) ==
  [k \in 1..(2 * Len(s)) |-> IF k % 2 = 1 THEN f(s[(k + 1) \div 2]) ELSE g(s[k \div 2])]

\* the list [f(x) for x in s]
Map(s, f(_)) == [k \in 1..Len(s) |-> f(s[k])]

\* itertools.combinations(items, 2) as index pairs, in its order
combinations2(len) == LoopOrder({c \in (1..len) \X (1..len) : c[1] < c[2]})

UnknownClue == [kind |-> "Unknown"]
EquivalenceClue(item1, item2) == [kind |-> "Equal", item1 |-> item1, item2 |-> item2]
UniquenessClue(items) == [kind |-> "Unique", items |-> items]
EitherClue(primary_item, option1, option2, n_item) ==
  [kind |-> "Either", primary |-> primary_item, option1 |-> option1,
   option2 |-> option2, n_item |-> n_item]
PairEqualClue(item1, item2, item3, item4, n_item) ==
  [kind |-> "PairEqual", pair1 |-> <<item1, item2>>, pair2 |-> <<item3, item4>>,
   n_item |-> n_item]
VagueGreaterClue(item_more, item_less, cat_axis, n_item) ==
  [kind |-> "VagueGreater", item_less |-> item_less, item_more |-> item_more,
   cat_axis |-> cat_axis, n_item |-> n_item]
ExactGreaterClue(item_more, item_less, cat_axis, diff, n_item) ==
  [kind |-> "ExactGreater", item_less |-> item_less, item_more |-> item_more,
   cat_axis |-> cat_axis, diff |-> diff, n_item |-> n_item]

\* the queries of VagueGreaterClue and ExactGreaterClue: less_queries + more_queries
axis_queries(solver) ==
  Map(RangeSeq(solver.n_item), LAMBDA i : <<solver.item_less, <<solver.cat_axis, i>>>>)
  \o Map(RangeSeq(solver.n_item), LAMBDA i : <<solver.item_more, <<solver.cat_axis, i>>>>)

\* ClueSolver.relation_queries of every variant
relation_queries(solver) ==
  CASE solver.kind = "Either" ->
         << <<solver.primary, solver.option1>>, <<solver.primary, solver.option2>> >>
    [] solver.kind = "PairEqual" ->
         << <<solver.pair1[1], solver.pair2[1]>>, <<solver.pair1[1], solver.pair2[2]>>,
            <<solver.pair1[2], solver.pair2[1]>>, <<solver.pair1[2], solver.pair2[2]>> >>
    [] solver.kind \in {"VagueGreater", "ExactGreater"} -> axis_queries(solver)
    [] OTHER -> <<>>

\* the return value of a draw_clue_conclusions that returned normally
Concluded(conclusions) == [conclusions |-> conclusions, error |-> FALSE]
\* a draw_clue_conclusions that raised
Raised == [conclusions |-> <<>>, error |-> TRUE]

\* UniquenessClue.draw_clue_conclusions over neighbouring items only, in
\* place of itertools.combinations
uniqueness_conclusions_of_neighbours(solver) ==
  [k \in 1..(Len(solver.items) - 1) |-> <<solver.items[k], solver.items[k + 1], NEGATIVE>>]

\* UniquenessClue.draw_clue_conclusions
uniqueness_conclusions(solver) ==
  Map(combinations2(Len(solver.items)),
      LAMBDA c : <<solver.items[c[1]], solver.items[c[2]], NEGATIVE>>)

\* the positions of category cat other than items a and b, as Negative
\* conclusions against target (the loops of lines 132-144, 173-177, 180-184)
others_in_category(n_item, a, b) ==
  SelectSeq(RangeSeq(n_item), LAMBDA i : ~(i = a \/ i = b))

\* EitherClue.draw_clue_conclusions
either_conclusions(solver, query_response) ==
  IF solver.option1[1] = solver.option2[1]
  THEN Map(others_in_category(solver.n_item, solver.option1[2], solver.option2[2]),
           LAMBDA i : <<solver.primary, <<solver.option1[1], i>>, NEGATIVE>>)
  ELSE LET is_option1 == query_response[1][3] = POSITIVE \/ query_response[2][3] = NEGATIVE
           is_option2 == query_response[2][3] = POSITIVE \/ query_response[1][3] = NEGATIVE
           val1 == IF is_option1 THEN POSITIVE ELSE IF is_option2 THEN NEGATIVE ELSE NEUTRAL
           val2 == IF is_option2 THEN POSITIVE ELSE IF is_option1 THEN NEGATIVE ELSE NEUTRAL
       IN  << <<solver.primary, solver.option1, val1>>,
              <<solver.primary, solver.option2, val2>>,
              <<solver.option1, solver.option2, NEGATIVE>> >>

\* PairEqualClue.draw_clue_conclusions
pair_equal_conclusions(solver, query_response) ==
  LET p1 == solver.pair1
      p2 == solver.pair2
  IN  IF p1[1][1] = p1[2][1]
      THEN << <<p2[1], p2[2], NEGATIVE>> >>
           \o Pairwise(others_in_category(solver.n_item, p1[1][2], p1[2][2]),
                       LAMBDA i : <<p2[1], <<p1[1][1], i>>, NEGATIVE>>,
                       LAMBDA i : <<p2[2], <<p1[1][1], i>>, NEGATIVE>>)
      ELSE IF p2[1][1] = p2[2][1]
      THEN << <<p1[1], p1[2], NEGATIVE>> >>
           \o Pairwise(others_in_category(solver.n_item, p2[1][2], p2[2][2]),
                       LAMBDA i : <<p1[1], <<p2[1][1], i>>, NEGATIVE>>,
                       LAMBDA i : <<p1[2], <<p2[1][1], i>>, NEGATIVE>>)
      ELSE LET q(k) == query_response[k][3]
               straight_match == q(1) = POSITIVE \/ q(2) = NEGATIVE
                                 \/ q(3) = NEGATIVE \/ q(4) = POSITIVE
               cross_match == q(1) = NEGATIVE \/ q(2) = POSITIVE
                              \/ q(3) = POSITIVE \/ q(4) = NEGATIVE
               vals == IF straight_match THEN <<POSITIVE, NEGATIVE, NEGATIVE, POSITIVE>>
                       ELSE IF cross_match THEN <<NEGATIVE, POSITIVE, POSITIVE, NEGATIVE>>
                       ELSE <<NEUTRAL, NEUTRAL, NEUTRAL, NEUTRAL>>
           IN  << <<p1[1], p1[2], NEGATIVE>>, <<p2[1], p2[2], NEGATIVE>>,
                  <<p1[1], p2[1], vals[1]>>, <<p1[1], p2[2], vals[2]>>,
                  <<p1[2], p2[1], vals[3]>>, <<p1[2], p2[2], vals[4]>> >>

\* None, for a rank or an index that was not set: a number no list index is
None == -1

\* the scan of the query results (lines 236-247, 297-308): per side the last
\* index answered Positive and the set of indices answered Neutral
axis_scan(solver, query_response) ==
  LET n == solver.n_item
      less(i) == query_response[i + 1][3]
      more(i) == query_response[i + n + 1][3]
      last(S) == IF S = {} THEN None ELSE CHOOSE i \in S : \A j \in S : j <= i
  IN  [less_positive_relation |-> last({i \in Range(n) : less(i) = POSITIVE}),
       more_positive_relation |-> last({i \in Range(n) : more(i) = POSITIVE}),
       less_possibilities |-> {i \in Range(n) : less(i) = NEUTRAL},
       more_possibilities |-> {i \in Range(n) : more(i) = NEUTRAL}]

\* the conclusion that the two items differ (lines 229-230, 290-291)
differ_conclusion(solver) ==
  IF solver.item_less[1] # solver.item_more[1]
  THEN << <<solver.item_less, solver.item_more, NEGATIVE>> >> ELSE <<>>

\* VagueGreaterClue.draw_clue_conclusions with the lesser item's own index
\* left out of the indices excluded for the greater item
vague_greater_conclusions_below(solver, query_response) ==
  LET sc == axis_scan(solver, query_response)
      n == solver.n_item
      axis(i) == <<solver.cat_axis, i>>
      less_min_possible ==
        IF sc.less_possibilities = {} THEN None
        ELSE CHOOSE i \in sc.less_possibilities : \A j \in sc.less_possibilities : i <= j
      more_max_possible ==
        IF sc.more_possibilities = {} THEN None
        ELSE CHOOSE i \in sc.more_possibilities : \A j \in sc.more_possibilities : j <= i
  IN  IF sc.less_positive_relation # None /\ sc.more_positive_relation # None
      THEN Concluded(differ_conclusion(solver))
      ELSE IF sc.less_positive_relation # None
      THEN Concluded(differ_conclusion(solver)
                     \o Map(RangeSeq(sc.less_positive_relation),
                            LAMBDA i : <<solver.item_more, axis(i), NEGATIVE>>))
      ELSE IF sc.more_positive_relation # None
      THEN Concluded(differ_conclusion(solver)
                     \o Map(SelectSeq(RangeSeq(n), LAMBDA i : i >= sc.more_positive_relation),
                            LAMBDA i : <<solver.item_less, axis(i), NEGATIVE>>))
      ELSE IF n > 0 /\ (more_max_possible = None \/ less_min_possible = None)
      THEN Raised
      ELSE Concluded(differ_conclusion(solver)
                     \o Pairwise(RangeSeq(n),
                          LAMBDA i : <<solver.item_less, axis(i),
                                       IF i >= more_max_possible THEN NEGATIVE ELSE NEUTRAL>>,
                          LAMBDA i : <<solver.item_more, axis(i),
                                       IF i <= less_min_possible THEN NEGATIVE ELSE NEUTRAL>>))

\* VagueGreaterClue.draw_clue_conclusions.  With neither side confirmed the
\* bounds are compared with each index; a bound left None raises TypeError.
vague_greater_conclusions(solver, query_response) ==
  LET sc == axis_scan(solver, query_response)
      n == solver.n_item
      axis(i) == <<solver.cat_axis, i>>
      less_min_possible ==
        IF sc.less_possibilities = {} THEN None
        ELSE CHOOSE i \in sc.less_possibilities : \A j \in sc.less_possibilities : i <= j
      more_max_possible ==
        IF sc.more_possibilities = {} THEN None
        ELSE CHOOSE i \in sc.more_possibilities : \A j \in sc.more_possibilities : j <= i
  IN  IF sc.less_positive_relation # None /\ sc.more_positive_relation # None
      THEN Concluded(differ_conclusion(solver))
      ELSE IF sc.less_positive_relation # None
      THEN Concluded(differ_conclusion(solver)
                     \o Map(RangeSeq(sc.less_positive_relation + 1),
                            LAMBDA i : <<solver.item_more, axis(i), NEGATIVE>>))
      ELSE IF sc.more_positive_relation # None
      THEN Concluded(differ_conclusion(solver)
                     \o Map(SelectSeq(RangeSeq(n), LAMBDA i : i >= sc.more_positive_relation),
                            LAMBDA i : <<solver.item_less, axis(i), NEGATIVE>>))
      ELSE IF n > 0 /\ (more_max_possible = None \/ less_min_possible = None)
      THEN Raised
      ELSE Concluded(differ_conclusion(solver)
                     \o Pairwise(RangeSeq(n),
                          LAMBDA i : <<solver.item_less, axis(i),
                                       IF i >= more_max_possible THEN NEGATIVE ELSE NEUTRAL>>,
                          LAMBDA i : <<solver.item_more, axis(i),
                                       IF i <= less_min_possible THEN NEGATIVE ELSE NEUTRAL>>))

\* ExactGreaterClue.draw_clue_conclusions with the gap left out of the forced
\* index (lines 314, 316)
exact_greater_conclusions_without_gap(solver, query_response) ==
  LET sc == axis_scan(solver, query_response)
      axis(i) == <<solver.cat_axis, i>>
  IN  IF sc.less_positive_relation # None /\ sc.more_positive_relation # None
      THEN differ_conclusion(solver)
      ELSE IF sc.less_positive_relation # None
      THEN differ_conclusion(solver)
           \o << <<solver.item_more, axis(sc.less_positive_relation), POSITIVE>> >>
      ELSE IF sc.more_positive_relation # None
      THEN differ_conclusion(solver)
           \o << <<solver.item_less, axis(sc.more_positive_relation), POSITIVE>> >>
      ELSE differ_conclusion(solver)

\* ExactGreaterClue.draw_clue_conclusions
exact_greater_conclusions(solver, query_response) ==
  LET sc == axis_scan(solver, query_response)
      axis(i) == <<solver.cat_axis, i>>
  IN  IF sc.less_positive_relation # None /\ sc.more_positive_relation # None
      THEN differ_conclusion(solver)
      ELSE IF sc.less_positive_relation # None
      THEN differ_conclusion(solver)
           \o << <<solver.item_more, axis(sc.less_positive_relation + solver.diff), POSITIVE>> >>
      ELSE IF sc.more_positive_relation # None
      THEN differ_conclusion(solver)
           \o << <<solver.item_less, axis(sc.more_positive_relation - solver.diff), POSITIVE>> >>
      ELSE differ_conclusion(solver)
           \o Pairwise(RangeSeq(solver.n_item),
                LAMBDA i : <<solver.item_less, axis(i),
                             IF (i + solver.diff) \in sc.more_possibilities
                             THEN NEUTRAL ELSE NEGATIVE>>,
                LAMBDA i : <<solver.item_more, axis(i),
                             IF (i - solver.diff) \in sc.less_possibilities
                             THEN NEUTRAL ELSE NEGATIVE>>)

\* ClueSolver.draw_clue_conclusions of every variant
draw_clue_conclusions(solver, query_response) ==
  CASE solver.kind = "Unknown" -> Concluded(<<>>)
    [] solver.kind = "Equal" -> Concluded(<< <<solver.item1, solver.item2, POSITIVE>> >>)
    [] solver.kind = "Unique" -> Concluded(uniqueness_conclusions(solver))
    [] solver.kind = "Either" -> Concluded(either_conclusions(solver, query_response))
    [] solver.kind = "PairEqual" -> Concluded(pair_equal_conclusions(solver, query_response))
    [] solver.kind = "VagueGreater" -> vague_greater_conclusions(solver, query_response)
    [] solver.kind = "ExactGreater" -> Concluded(exact_greater_conclusions(solver, query_response))

(***************************************************************************)
(* Clue processing (problem.py)                                            *)
(***************************************************************************)

\* a list index as Python resolves it: -len .. -1 count from the end, and
\* anything outside -len .. len-1 raises IndexError (None here)
PyIndex(i, len) ==
  IF 0 <= i /\ i < len THEN i
  ELSE IF -len <= i /\ i < 0 THEN i + len
  ELSE None

\* what a subscript that raises IndexError yields in place of a cell
NoCell == <<>>

\* the indices of combined_table[item1[0]][item2[0]][item1[1]][item2[1]],
\* or NoCell where the subscript raises
cell_of(t, item1, item2) ==
  LET n_cat == Size(t)
      n_item == Size(t[0][0])
      c == << PyIndex(item1[1], n_cat), PyIndex(item2[1], n_cat),
              PyIndex(item1[2], n_item), PyIndex(item2[2], n_item) >>
  IN  IF \E k \in 1..4 : c[k] = None THEN NoCell ELSE c

\* one pass of the loop over the updates (lines 387-396)
clue_write(t, c, val) == Tensor([t EXCEPT ![c[1]][c[2]][c[3]][c[4]] = val])

RECURSIVE clue_updates(_, _, _)
clue_updates(acc, updates, k) ==
  IF k > Len(updates) \/ acc.error THEN acc
  ELSE The({
    IF u[3] = NEUTRAL
    THEN clue_updates([acc EXCEPT !.no_neutral = FALSE], updates, k + 1)
    ELSE The({
      IF c[1] = NoCell \/ c[2] = NoCell
      THEN [acc EXCEPT !.error = TRUE]
      ELSE The({ The({ The({ The({
        clue_updates([acc EXCEPT !.t = t2, !.changed = acc.changed \/ w1 \/ w2],
                     updates, k + 1)
        : t2 \in {IF w2 THEN clue_write(t1, c[2], u[3]) ELSE t1} })
        : w2 \in {t1[c[2][1]][c[2][2]][c[2][3]][c[2][4]] # u[3]} })
        : t1 \in {IF w1 THEN clue_write(acc.t, c[1], u[3]) ELSE acc.t} })
        : w1 \in {acc.t[c[1][1]][c[1][2]][c[1][3]][c[1][4]] # u[3]} })
      : c \in {<<cell_of(acc.t, u[1], u[2]), cell_of(acc.t, u[2], u[1])>>} })
    : u \in {updates[k]} })

\* Problem.process_clue: the tensor it leaves, its return value, the clue's
\* active flag afterwards, and whether it raised
\* line 384 with the clue's flag consulted: a clue that is not active draws no
\* conclusions
updates_if_active(clue, results) ==
  IF clue.active THEN draw_clue_conclusions(clue.solver, results) ELSE Concluded(<<>>)

\* updates = clue.solver.draw_clue_conclusions(results) (line 384)
updates_of(clue, results) == draw_clue_conclusions(clue.solver, results)

\* lines 398-399 with the Neutral test left out: any conclusion clears the flag
clue_deactivation_on_any(conclusions, no_neutral, active) ==
  IF Len(conclusions) > 0 THEN FALSE ELSE active

\* lines 398-399: the clue's active flag after its conclusions were written
clue_deactivation(conclusions, no_neutral, active) ==
  IF Len(conclusions) > 0 /\ no_neutral THEN FALSE ELSE active

\* the accumulator of the loop over the updates as lines 385-386 set it
write_start(combined_table) ==
  [t |-> combined_table, changed |-> FALSE, no_neutral |-> TRUE, error |-> FALSE]

process_clue_failed(clue, combined_table) ==
  [t |-> combined_table, changed |-> FALSE, active |-> clue.active, error |-> TRUE]

process_clue(clue, combined_table) ==
  The({ The({
    IF \E k \in DOMAIN cells : cells[k] = NoCell
    THEN process_clue_failed(clue, combined_table)
    ELSE The({ The({
      IF drawn.error THEN process_clue_failed(clue, combined_table)
      ELSE The({
        [t |-> done.t, changed |-> done.changed, error |-> done.error,
         active |-> IF done.error THEN clue.active
                    ELSE clue_deactivation(drawn.conclusions, done.no_neutral, clue.active)]
        : done \in {clue_updates(write_start(combined_table), drawn.conclusions, 1)} })
      : drawn \in {updates_of(clue, results)} })
      : results \in {Row([k \in DOMAIN cells |->
           << relations_to_check[k][1], relations_to_check[k][2],
              combined_table[cells[k][1]][cells[k][2]][cells[k][3]][cells[k][4]] >>])} })
    : cells \in {Row([k \in DOMAIN relations_to_check |->
         cell_of(combined_table, relations_to_check[k][1], relations_to_check[k][2])])} })
    : relations_to_check \in {relation_queries(clue.solver)} })

\* self.clues of a Problem constructed without a clue list (line 42): None,
\* which is no list
NoClueList == [x \in {None} |-> None]

\* Problem.process_all_clues (iterating self.clues = None raises TypeError)
RECURSIVE process_clues_from(_, _)
process_clues_from(acc, k) ==
  IF k > Len(acc.clues) \/ acc.error THEN acc
  ELSE The({
         process_clues_from([t |-> r.t, changed |-> acc.changed \/ r.changed,
                             error |-> r.error,
                             clues |-> [acc.clues EXCEPT ![k].active = r.active]],
                            k + 1)
         : r \in {process_clue(acc.clues[k], acc.t)} })

process_all_clues(clues, combined_table) ==
  IF clues = NoClueList
  THEN [t |-> combined_table, changed |-> FALSE, error |-> TRUE, clues |-> clues]
  ELSE process_clues_from([t |-> combined_table, changed |-> FALSE, error |-> FALSE,
                           clues |-> clues], 1)

(***************************************************************************)
(* The fixpoint orchestrator                                               *)
(***************************************************************************)

\* the keys of Problem.relationships (Problem.__init__, lines 44-47): row 0
\* against columns 1 .. n_cat-1, then rows n_cat-1 down to 2, each against
\* one column less
relationship_keys(n_categories) ==
  {<<0, col_key>> : col_key \in 1..(n_categories - 1)}
  \cup {k \in (2..(n_categories - 1)) \X (1..(n_categories - 1)) :
          k[2] < k[1]}

\* [[NEUTRAL] * n_item for _ in range(n_item)]
neutral_table(n_item) == [i \in Range(n_item) |-> [j \in Range(n_item) |-> NEUTRAL]]

\* draw_conclusions, lines 71-91: the combined tensor seeded with the user's
\* cells, their transposes, and the identity relations
seed_tables(relations, n_cat, n_item) ==
  Tensor([x \in Range(n_cat) |-> [y \in Range(n_cat) |->
            [i \in Range(n_item) |-> [j \in Range(n_item) |->
     IF x = y THEN (IF i = j THEN POSITIVE ELSE NEGATIVE)
     ELSE IF <<x, y>> \in DOMAIN relations /\ relations[<<x, y>>][i][j] # NEUTRAL
     THEN relations[<<x, y>>][i][j]
     ELSE IF <<y, x>> \in DOMAIN relations /\ relations[<<y, x>>][j][i] # NEUTRAL
     THEN relations[<<y, x>>][j][i]
     ELSE NEUTRAL]]]])

\* the four structural passes of do_all_logic in order (lines 356-359), as
\* the tensor process_all_clues receives
structural_passes(combined_table) ==
  The({
    IF eo.hangs THEN [t |-> eo.t, hangs |-> TRUE]
    ELSE [t |-> apply_cross_elimination(
                  apply_pseudo_true(apply_transposition_logic(eo.t).t).t).t,
          hangs |-> FALSE]
    : eo \in {apply_exactly_one_logic(combined_table)} })

\* Problem.do_all_logic: the five passes in order.  outcome is "ok" when it
\* returned, "hang" when a pass never returns, "error" when one raised.
do_all_logic(combined_table, clues) ==
  The({
    IF eo.hangs
    THEN [t |-> eo.t, changed |-> TRUE, clues |-> clues, outcome |-> "hang"]
    ELSE The({ The({ The({ The({
      [t |-> cl.t,
       changed |-> eo.changed \/ tr.changed \/ pt.changed \/ ce.changed \/ cl.changed,
       clues |-> cl.clues,
       outcome |-> IF cl.error THEN "error" ELSE "ok"]
      : cl \in {process_all_clues(clues, ce.t)} })
      : ce \in {apply_cross_elimination(pt.t)} })
      : pt \in {apply_pseudo_true(tr.t)} })
      : tr \in {apply_transposition_logic(eo.t)} })
    : eo \in {apply_exactly_one_logic(combined_table)} })

\* the loop of draw_conclusions (lines 94-96).  A round is a function of the
\* tensor alone (no pass reads a clue's active flag), so a round that reports
\* a change and leaves a tensor some earlier round started from repeats
\* forever: outcome "hang".
RECURSIVE logic_loop(_, _, _)
logic_loop(combined_table, clues, seen) ==
  The({
    IF r.outcome # "ok" \/ ~r.changed THEN r
    ELSE IF r.t \in seen THEN [r EXCEPT !.outcome = "hang"]
    ELSE logic_loop(r.t, r.clues, seen \cup {r.t})
    : r \in {do_all_logic(combined_table, clues)} })

\* draw_conclusions seeding the combined tensor with the solved tables of the
\* run before, under the user's cells, in place of the Neutral tensor of line 73
draw_conclusions_on_solved(relations, solved, clues, n_cat, n_item) ==
  The({ The({
    [solved  |-> IF r.outcome = "ok"
                 THEN [key \in DOMAIN relations |-> r.t[key[1]][key[2]]]
                 ELSE solved,
     clues   |-> r.clues,
     outcome |-> r.outcome,
     combined |-> r.t]
    : r \in {logic_loop(seed, clues, {seed})} })
    : seed \in {seed_tables(
        [key \in DOMAIN relations |-> [i \in Range(n_item) |-> [j \in Range(n_item) |->
           IF relations[key][i][j] # NEUTRAL THEN relations[key][i][j]
           ELSE solved[key][i][j]]]], n_cat, n_item)} })

\* Problem.draw_conclusions: the solved tables it stores (lines 99-100), the
\* clues as it leaves them, and how it ended
draw_conclusions(relations, solved, clues, n_cat, n_item) ==
  The({ The({
    [solved  |-> IF r.outcome = "ok"
                 THEN [key \in DOMAIN relations |-> r.t[key[1]][key[2]]]
                 ELSE solved,
     clues   |-> r.clues,
     outcome |-> r.outcome,
     combined |-> r.t]
    : r \in {logic_loop(seed, clues, {seed})} })
    : seed \in {seed_tables(relations, n_cat, n_item)} })

(***************************************************************************)
(* Clue.update_solver (clue.py)                                            *)
(***************************************************************************)

\* ord() of the category letters
ord(ch) == CASE ch = "A" -> 65 [] ch = "B" -> 66 [] ch = "C" -> 67 [] ch = "D" -> 68

\* (ord(item[0])-65, int(item[1:])-1): an item written <<letter, number>>
\* becomes the 0-based <<category, index>>
parse_item(item) == <<ord(item[1]) - 65, item[2] - 1>>

\* a Clue as constructed (Clue.__init__)
Clue(n_item) == [parsed_text |-> [prefix |-> "Unknown", parts |-> <<>>],
                 solver |-> UnknownClue, active |-> TRUE]

\* Clue.update_solver.  parsed_clue is the grammar string split at "(" and
\* ",": its prefix and the parts between the commas, an item as
\* <<letter, number>>, an axis as <<letter>> and a difference as <<number>>.
update_solver(clue, parsed_clue, n_item) ==
  LET parts == parsed_clue.parts
      items == Map(parts, LAMBDA item : parse_item(item))
      solver ==
        CASE parsed_clue.prefix = "Equal" -> EquivalenceClue(items[1], items[2])
          [] parsed_clue.prefix = "Unique" -> UniquenessClue(items)
          [] parsed_clue.prefix = "Either" -> EitherClue(items[1], items[2], items[3], n_item)
          [] parsed_clue.prefix = "PairEqual" ->
               PairEqualClue(items[1], items[2], items[3], items[4], n_item)
          [] parsed_clue.prefix = "VagueGreater" ->
               VagueGreaterClue(parse_item(parts[1]), parse_item(parts[2]),
                                ord(parts[3][1]) - 65, n_item)
          [] parsed_clue.prefix = "ExactGreater" ->
               ExactGreaterClue(parse_item(parts[1]), parse_item(parts[2]),
                                ord(parts[3][1]) - 65, parts[4][1], n_item)
          [] OTHER -> UnknownClue
  IN  [parsed_text |-> parsed_clue, solver |-> solver, active |-> TRUE]

(***************************************************************************)
(* Problem.update                                                          *)
(***************************************************************************)

\* the state update asks for (lines 54, 56)
new_state_for(old_state, desired) ==
  IF old_state = NEUTRAL THEN (IF desired THEN POSITIVE ELSE NEGATIVE) ELSE NEUTRAL

\* update without the test of the solved state (lines 62-64)
update_unchecked(relations, solved, clues, n_cat, n_item, desired, relation_key, item_row, item_col) ==
  The({
    [relations |-> drawn.written, solved |-> drawn.solved, clues |-> drawn.clues,
     success |-> TRUE, outcome |-> drawn.outcome, combined |-> drawn.combined]
    : drawn \in {[written |-> w] @@ draw_conclusions(w, solved, clues, n_cat, n_item) :
        w \in {[relations EXCEPT ![relation_key][item_row][item_col] =
                 new_state_for(relations[relation_key][item_row][item_col], desired)]}} })

\* update without its calls of draw_conclusions (lines 59, 67)
update_without_rerun(relations, solved, clues, n_cat, n_item, desired, relation_key, item_row, item_col) ==
  LET old_state == relations[relation_key][item_row][item_col]
      new_state == new_state_for(old_state, desired)
  IN  IF old_state = NEUTRAL /\ solved[relation_key][item_row][item_col] # NEUTRAL
         /\ new_state # solved[relation_key][item_row][item_col]
      THEN [relations |-> relations, solved |-> solved, clues |-> clues,
            success |-> FALSE, outcome |-> "ok", combined |-> <<>>]
      ELSE [relations |-> [relations EXCEPT ![relation_key][item_row][item_col] = new_state],
            solved |-> solved, clues |-> clues,
            success |-> TRUE, outcome |-> "ok", combined |-> <<>>]

\* Problem.update: the user's tables, the solved tables and the clues it
\* leaves, its return value, how it ended, and the combined tables of the
\* run of draw_conclusions it made
update(relations, solved, clues, n_cat, n_item, desired, relation_key, item_row, item_col) ==
  LET old_state == relations[relation_key][item_row][item_col]
      new_state == new_state_for(old_state, desired)
      solved_state == solved[relation_key][item_row][item_col]
      written == [relations EXCEPT ![relation_key][item_row][item_col] = new_state]
  IN  IF old_state = NEUTRAL /\ solved_state # NEUTRAL /\ new_state # solved_state
      THEN [relations |-> relations, solved |-> solved, clues |-> clues,
            success |-> FALSE, outcome |-> "ok", combined |-> <<>>]
      ELSE The({
             [relations |-> written, solved |-> drawn.solved, clues |-> drawn.clues,
              success |-> TRUE, outcome |-> drawn.outcome, combined |-> drawn.combined]
             : drawn \in {draw_conclusions(written, solved, clues, n_cat, n_item)} })

(***************************************************************************)
(* The program as a state machine: a Problem and the handlers that call it *)
(***************************************************************************)

\* bounds of the model
NCat == 3
NItem == 2
NClues == 2
MaxMarks == 1

\* the parsings a user may give a clue (gui.py edit_clue_callback)
Grammars ==
  { [prefix |-> "Equal",  parts |-> << <<"A", 1>>, <<"B", 1>> >>],
    [prefix |-> "Unique", parts |-> << <<"A", 2>>, <<"B", 2>>, <<"A", 2>> >>] }

VARIABLES
  relationships,        \* Problem.relationships: key -> the user's table
  solved_relationships, \* Problem.solved_relationships: key -> solved table
  clues,                \* Problem.clues: a list of Clue, or NoClueList
  result,               \* how the last call into the Problem ended: "True"/"False"
                        \* returned by update, "returned" by draw_conclusions,
                        \* "raised", or "hung" (it never returned)
  combined_tables,      \* the combined_tables of draw_conclusions: of the run in
                        \* progress, or as the last finished run left them
  pc,                   \* where a run of draw_conclusions followed pass by pass is
  any_changed,          \* the any_changed of do_all_logic in that run
  results,              \* the results list of process_clue (lines 379-382)
  updates,              \* the updates list of process_clue (line 384)
  table,                \* the table a structural pass is working on
  table_changed         \* what the pass's step last returned for it

vars == <<relationships, solved_relationships, clues, result, pc, combined_tables, any_changed,
          results, updates, table, table_changed>>
matrix_vars == <<table, table_changed>>
clue_vars == <<results, updates, matrix_vars>>
run_vars == <<pc, any_changed, clue_vars>>

Keys == relationship_keys(NCat)

marks(relations) ==
  Cardinality({c \in Keys \X Range(NItem) \X Range(NItem) :
                 relations[c[1]][c[2]][c[3]] # NEUTRAL})

\* Problem(n_categories, n_items) or Problem(n_categories, n_items, clues)
Init ==
  /\ relationships = [key \in Keys |-> neutral_table(NItem)]
  /\ solved_relationships = [key \in Keys |-> neutral_table(NItem)]
  /\ clues \in {NoClueList, [k \in 1..NClues |-> Clue(NItem)]}
  /\ result = "init"
  /\ pc = "idle"
  /\ combined_tables = <<>>
  /\ any_changed = FALSE
  /\ results = <<>>
  /\ updates = <<>>
  /\ table = <<>>
  /\ table_changed = FALSE

finished(outcome) == IF outcome = "ok" THEN "returned"
                     ELSE IF outcome = "hang" THEN "hung" ELSE "raised"

\* gui.py bn_callback -> Problem.update
Update(desired, relation_key, item_row, item_col) ==
  /\ result # "hung"
  /\ \/ relationships[relation_key][item_row][item_col] # NEUTRAL
     \/ marks(relationships) < MaxMarks
     \/ solved_relationships[relation_key][item_row][item_col]
          \notin {NEUTRAL, new_state_for(NEUTRAL, desired)}
  /\ \E r \in {update(relationships, solved_relationships, clues, NCat, NItem,
                       desired, relation_key, item_row, item_col)} :
         /\ relationships' = r.relations
         /\ solved_relationships' = r.solved
         /\ clues' = r.clues
         /\ result' = IF r.outcome # "ok" THEN finished(r.outcome)
                      ELSE IF r.success THEN "True" ELSE "False"
         /\ combined_tables' = IF r.outcome = "ok" /\ r.success THEN r.combined
                                ELSE combined_tables
  /\ UNCHANGED run_vars

\* Problem.draw_conclusions called on its own (gui.py MainWindow.__init__)
DrawConclusions ==
  /\ result # "hung"
  /\ \E r \in {draw_conclusions(relationships, solved_relationships, clues, NCat, NItem)} :
         /\ solved_relationships' = r.solved
         /\ clues' = r.clues
         /\ result' = finished(r.outcome)
         /\ combined_tables' = IF r.outcome = "ok" THEN r.combined ELSE combined_tables
  /\ UNCHANGED <<relationships, run_vars>>

\* gui.py clue_callback: toggles the clue's active flag
ClueCallback(idx) ==
  /\ result # "hung"
  /\ clues # NoClueList
  /\ idx \in 1..Len(clues)
  /\ clues' = [clues EXCEPT ![idx].active = ~clues[idx].active]
  /\ UNCHANGED <<relationships, solved_relationships, result, combined_tables, run_vars>>

\* gui.py edit_clue_callback: update_solver, then draw_conclusions
EditClue(idx, parsed_clue) ==
  /\ result # "hung"
  /\ clues # NoClueList
  /\ idx \in 1..Len(clues)
  /\ \E r \in {draw_conclusions(relationships, solved_relationships,
                     [clues EXCEPT ![idx] = update_solver(clues[idx], parsed_clue, NItem)],
                     NCat, NItem)} :
         /\ solved_relationships' = r.solved
         /\ clues' = r.clues
         /\ result' = finished(r.outcome)
         /\ combined_tables' = IF r.outcome = "ok" THEN r.combined ELSE combined_tables
  /\ UNCHANGED <<relationships, run_vars>>

Next ==
  \/ \E desired \in BOOLEAN, relation_key \in Keys, item_row \in Range(NItem),
        item_col \in Range(NItem) : Update(desired, relation_key, item_row, item_col)
  \/ DrawConclusions
  \/ \E idx \in 1..NClues : ClueCallback(idx)
  \/ \E idx \in 1..NClues, parsed_clue \in Grammars : EditClue(idx, parsed_clue)

Spec == Init /\ [][Next]_vars

(***************************************************************************)
(* One run of draw_conclusions followed pass by pass, over a family of     *)
(* user tables and clue lists                                              *)
(***************************************************************************)

\* bounds of the runs
RunNItem == 4
RunNClues == 2
RunMaxMarks == 4

\* cells the user may have marked, <<key, item_row, item_col, state>>
RunPalette ==
  { << <<0, 1>>, 0, 0, NEGATIVE >>, << <<0, 1>>, 0, 1, NEGATIVE >>,
    << <<0, 1>>, 1, 0, NEGATIVE >>, << <<0, 1>>, 1, 1, NEGATIVE >>,
    << <<0, 2>>, 2, 0, NEGATIVE >>, << <<0, 2>>, 3, 0, NEGATIVE >> }

\* the parsings the clues may have been given
RunGrammars ==
  { [prefix |-> "Equal",  parts |-> << <<"A", 3>>, <<"B", 3>> >>],
    [prefix |-> "Equal",  parts |-> << <<"A", 3>>, <<"B", 4>> >>],
    [prefix |-> "Unique", parts |-> << <<"A", 3>>, <<"B", 3>> >>] }

\* the user's tables after the marks of S were set through Problem.update
marked(S) ==
  [key \in Keys |-> [i \in Range(RunNItem) |-> [j \in Range(RunNItem) |->
     IF <<key, i, j, POSITIVE>> \in S THEN POSITIVE
     ELSE IF <<key, i, j, NEGATIVE>> \in S THEN NEGATIVE
     ELSE NEUTRAL]]]

RunRelationships ==
  {marked(S) : S \in {S \in SUBSET RunPalette : Cardinality(S) <= RunMaxMarks}}

RunClueLists ==
  UNION {[1..len -> {update_solver(Clue(RunNItem), g, RunNItem) : g \in RunGrammars}] :
           len \in 0..RunNClues}

\* a Problem with its tables marked and its clues parsed, draw_conclusions
\* about to run
RunInit ==
  /\ relationships \in RunRelationships
  /\ solved_relationships = [key \in Keys |-> neutral_table(RunNItem)]
  /\ clues \in RunClueLists
  /\ result = "init"
  /\ pc = "seed"
  /\ combined_tables = <<>>
  /\ any_changed = FALSE
  /\ results = <<>>
  /\ updates = <<>>
  /\ table = <<>>
  /\ table_changed = FALSE

\* draw_conclusions, lines 71-91
RunSeed ==
  /\ pc = "seed"
  /\ UNCHANGED clue_vars
  /\ combined_tables' = seed_tables(relationships, NCat, RunNItem)
  /\ pc' = "exactly_one"
  /\ UNCHANGED <<relationships, solved_relationships, clues, result, any_changed>>

\* do_all_logic, line 356; a pass that never returns leaves the run where it is
RunExactlyOne ==
  /\ pc = "exactly_one"
  /\ UNCHANGED clue_vars
  /\ \E r \in {apply_exactly_one_logic(combined_tables)} :
       IF r.hangs THEN UNCHANGED <<pc, combined_tables, any_changed>>
       ELSE /\ combined_tables' = r.t
            /\ any_changed' = r.changed
            /\ pc' = "transposition"
  /\ UNCHANGED <<relationships, solved_relationships, clues, result>>

\* do_all_logic, line 357
RunTransposition ==
  /\ pc = "transposition"
  /\ UNCHANGED clue_vars
  /\ \E r \in {apply_transposition_logic(combined_tables)} :
       /\ combined_tables' = r.t
       /\ any_changed' = (any_changed \/ r.changed)
  /\ pc' = "pseudo_true"
  /\ UNCHANGED <<relationships, solved_relationships, clues, result>>

\* do_all_logic, line 358
RunPseudoTrue ==
  /\ pc = "pseudo_true"
  /\ UNCHANGED clue_vars
  /\ \E r \in {apply_pseudo_true(combined_tables)} :
       /\ combined_tables' = r.t
       /\ any_changed' = (any_changed \/ r.changed)
  /\ pc' = "cross_elimination"
  /\ UNCHANGED <<relationships, solved_relationships, clues, result>>

\* do_all_logic, line 359
RunCrossElimination ==
  /\ pc = "cross_elimination"
  /\ UNCHANGED clue_vars
  /\ \E r \in {apply_cross_elimination(combined_tables)} :
       /\ combined_tables' = r.t
       /\ any_changed' = (any_changed \/ r.changed)
  /\ pc' = "clues"
  /\ UNCHANGED <<relationships, solved_relationships, clues, result>>

\* do_all_logic, line 360
RunClues ==
  /\ pc = "clues"
  /\ UNCHANGED clue_vars
  /\ \E r \in {process_all_clues(clues, combined_tables)} :
       /\ clues' = r.clues
       /\ IF r.error
          THEN /\ pc' = "raised"
               /\ result' = "raised"
               /\ UNCHANGED <<combined_tables, any_changed>>
          ELSE /\ combined_tables' = r.t
               /\ any_changed' = (any_changed \/ r.changed)
               /\ pc' = "loop"
               /\ UNCHANGED result
  /\ UNCHANGED <<relationships, solved_relationships>>

\* the loop test of draw_conclusions (lines 94-96): another round
RunAgain ==
  /\ pc = "loop"
  /\ UNCHANGED clue_vars
  /\ any_changed
  /\ pc' = "exactly_one"
  /\ UNCHANGED <<relationships, solved_relationships, clues, result, combined_tables,
                 any_changed>>

\* the loop ends and the results are stored (lines 99-100)
RunStore ==
  /\ pc = "loop"
  /\ UNCHANGED clue_vars
  /\ ~any_changed
  /\ solved_relationships' = [key \in Keys |-> combined_tables[key[1]][key[2]]]
  /\ result' = "returned"
  /\ pc' = "done"
  /\ UNCHANGED <<relationships, clues, combined_tables, any_changed>>

RunNext ==
  \/ RunSeed
  \/ RunExactlyOne
  \/ RunTransposition
  \/ RunPseudoTrue
  \/ RunCrossElimination
  \/ RunClues
  \/ RunAgain
  \/ RunStore

SpecRun == RunInit /\ [][RunNext]_vars

\* the interpreter keeps executing a run that can take a step
FairRun == RunInit /\ [][RunNext]_vars /\ WF_vars(RunNext)

(***************************************************************************)
(* Runs of draw_conclusions on a Problem whose clues conclude nothing: the *)
(* structural passes alone, on grids with Positive and Negative marks      *)
(***************************************************************************)

StructMaxMarks == 4

\* cells the user may have marked, <<key, item_row, item_col, state>>
StructPalette ==
  { << <<0, 1>>, 0, 0, NEGATIVE >>, << <<0, 1>>, 0, 1, NEGATIVE >>,
    << <<0, 1>>, 1, 0, NEGATIVE >>, << <<0, 1>>, 1, 1, NEGATIVE >>,
    << <<0, 1>>, 1, 2, NEGATIVE >>, << <<0, 1>>, 1, 3, NEGATIVE >>,
    << <<0, 1>>, 2, 2, POSITIVE >>,
    << <<0, 2>>, 2, 0, NEGATIVE >>, << <<0, 2>>, 3, 0, NEGATIVE >>,
    << <<0, 2>>, 0, 1, POSITIVE >>,
    << <<2, 1>>, 0, 0, NEGATIVE >>, << <<2, 1>>, 0, 1, NEGATIVE >> }

StructRelationships ==
  {marked(S) : S \in {S \in SUBSET StructPalette : Cardinality(S) <= StructMaxMarks}}

\* a Problem with its tables marked and no clue, or one clue never edited
\* (an Unknown clue), draw_conclusions about to run
StructInit ==
  /\ relationships \in StructRelationships
  /\ solved_relationships = [key \in Keys |-> neutral_table(RunNItem)]
  /\ clues \in {<<>>, <<Clue(RunNItem)>>}
  /\ result = "init"
  /\ pc = "seed"
  /\ combined_tables = <<>>
  /\ any_changed = FALSE
  /\ results = <<>>
  /\ updates = <<>>
  /\ table = <<>>
  /\ table_changed = FALSE

SpecStructural == StructInit /\ [][RunNext]_vars

(***************************************************************************)
(* The cross-elimination pass of the first round of draw_conclusions on a  *)
(* Problem of four categories without clues (gui.py builds four)           *)
(***************************************************************************)

CrossNCat == 4
CrossMaxMarks == 7

CrossKeys == relationship_keys(CrossNCat)

\* cells the user may have marked Negative, <<key, item_row, item_col>>
CrossPalette ==
  { << <<0, 1>>, 0, 0 >>, << <<0, 1>>, 1, 0 >>,
    << <<0, 2>>, 2, 0 >>, << <<0, 2>>, 3, 0 >>,
    << <<2, 1>>, 0, 1 >>,
    << <<3, 1>>, 0, 2 >>, << <<3, 1>>, 0, 3 >>,
    << <<0, 3>>, 0, 0 >>, << <<0, 3>>, 1, 0 >> }

\* the user's tables after the marks of S were set through Problem.update
cross_marked(S) ==
  [key \in CrossKeys |-> [i \in Range(RunNItem) |-> [j \in Range(RunNItem) |->
     IF <<key, i, j>> \in S THEN NEGATIVE ELSE NEUTRAL]]]

CrossRelationships ==
  {cross_marked(S) : S \in {S \in SUBSET CrossPalette : Cardinality(S) <= CrossMaxMarks}}

\* the three passes do_all_logic runs before cross-elimination (lines 356-358)
passes_before_cross(combined_table) ==
  The({
    IF eo.hangs THEN [t |-> eo.t, hangs |-> TRUE]
    ELSE [t |-> apply_pseudo_true(apply_transposition_logic(eo.t).t).t, hangs |-> FALSE]
    : eo \in {apply_exactly_one_logic(combined_table)} })

\* do_all_logic about to run apply_cross_elimination (line 359) in the first
\* round of draw_conclusions
CrossInit ==
  /\ relationships \in CrossRelationships
  /\ solved_relationships = [key \in CrossKeys |-> neutral_table(RunNItem)]
  /\ clues = <<>>
  /\ result = "init"
  /\ pc = "cross_elimination"
  /\ \E before \in {passes_before_cross(seed_tables(relationships, CrossNCat, RunNItem))} :
       /\ ~before.hangs
       /\ combined_tables = before.t
  /\ any_changed = FALSE
  /\ results = <<>>
  /\ updates = <<>>
  /\ table = <<>>
  /\ table_changed = FALSE

\* do_all_logic, line 359
CrossPass ==
  /\ pc = "cross_elimination"
  /\ \E r \in {apply_cross_elimination(combined_tables)} :
       /\ combined_tables' = r.t
       /\ any_changed' = r.changed
  /\ pc' = "clues"
  /\ UNCHANGED <<relationships, solved_relationships, clues, result, clue_vars>>

SpecCross == CrossInit /\ [][CrossPass]_vars

(***************************************************************************)
(* The pseudo-true step on one table, its row search and its column search *)
(***************************************************************************)

PseudoNItem == 6

\* the rows of the tables: Negative but for a set of open (Neutral) columns,
\* or complete with its Positive in the last column
PseudoOpenings == { {0, 1}, {2, 3, 4}, {0, 1, 2}, Range(PseudoNItem) }
PseudoRows ==
  { [j \in Range(PseudoNItem) |-> IF j \in open THEN NEUTRAL ELSE NEGATIVE] :
      open \in PseudoOpenings }
  \cup { [j \in Range(PseudoNItem) |-> IF j = PseudoNItem - 1 THEN POSITIVE ELSE NEGATIVE] }

\* apply_pseudo_true runs after apply_exactly_one_logic (do_all_logic, lines
\* 356-358): the tables it is handed are tables the exactly-one step leaves
\* as they are
PseudoTables ==
  {t \in [Range(PseudoNItem) -> PseudoRows] : ~step_apply_exactly_one_logic(t).changed}

PseudoInit ==
  /\ relationships = [key \in Keys |-> neutral_table(PseudoNItem)]
  /\ solved_relationships = [key \in Keys |-> neutral_table(PseudoNItem)]
  /\ clues = <<>>
  /\ result = "init"
  /\ pc = "row_search"
  /\ combined_tables = <<>>
  /\ any_changed = FALSE
  /\ results = <<>>
  /\ updates = <<>>
  /\ table \in PseudoTables
  /\ table_changed = FALSE

\* step_apply_pseudo_true, the search over the rows (lines 213-252)
PseudoRowSearch ==
  /\ pc = "row_search"
  /\ \E r \in {pseudo_true_row_search(table)} :
       table' = r.table /\ table_changed' = r.hit
  /\ pc' = "col_search"
  /\ UNCHANGED <<relationships, solved_relationships, clues, result, combined_tables,
                 any_changed, results, updates>>

\* step_apply_pseudo_true, the search over the columns (lines 254-293)
PseudoColSearch ==
  /\ pc = "col_search"
  /\ \E c \in {pseudo_true_row_search(Transpose(table))} :
       table' = Transpose(c.table) /\ table_changed' = (table_changed \/ c.hit)
  /\ pc' = "searched"
  /\ UNCHANGED <<relationships, solved_relationships, clues, result, combined_tables,
                 any_changed, results, updates>>

PseudoNext == PseudoRowSearch \/ PseudoColSearch

SpecPseudo == PseudoInit /\ [][PseudoNext]_vars

(***************************************************************************)
(* One evaluation of one clue, process_clue followed statement by          *)
(* statement on the tensor the structural passes hand it                   *)
(***************************************************************************)

ClueNItem == 3
ClueMaxMarks == 2

\* cells the user may have marked: the cells the clues below ask about
CluePalette ==
  { <<key, i, j, state>> :
      key \in {<<0, 1>>, <<0, 2>>}, i \in Range(ClueNItem), j \in {0},
      state \in {POSITIVE, NEGATIVE} }
  \cup { << <<0, 1>>, 0, 1, state >> : state \in {POSITIVE, NEGATIVE} }
  \cup { << <<0, 2>>, 0, 2, state >> : state \in {POSITIVE, NEGATIVE} }

\* the parsings the clue may have been given
ClueGrammars ==
  { [prefix |-> "Unknown", parts |-> <<>>],
    [prefix |-> "Equal",  parts |-> << <<"A", 1>>, <<"B", 1>> >>],
    [prefix |-> "Unique", parts |-> << <<"A", 1>>, <<"B", 2>> >>],
    [prefix |-> "Unique", parts |-> << <<"A", 1>>, <<"B", 2>>, <<"C", 3>> >>],
    [prefix |-> "Unique", parts |-> << <<"A", 1>>, <<"B", 4>> >>],
    [prefix |-> "Either", parts |-> << <<"A", 1>>, <<"B", 2>>, <<"C", 3>> >>],
    [prefix |-> "Either", parts |-> << <<"A", 1>>, <<"B", 1>>, <<"B", 2>> >>],
    [prefix |-> "ExactGreater", parts |-> << <<"B", 1>>, <<"C", 1>>, <<"A">>, <<1>> >>],
    [prefix |-> "ExactGreater", parts |-> << <<"B", 1>>, <<"C", 1>>, <<"A">>, <<2>> >>],
    [prefix |-> "ExactGreater", parts |-> << <<"B", 1>>, <<"B", 2>>, <<"A">>, <<1>> >>],
    [prefix |-> "VagueGreater", parts |-> << <<"B", 1>>, <<"C", 1>>, <<"A">> >>],
    [prefix |-> "VagueGreater", parts |-> << <<"B", 1>>, <<"B", 2>>, <<"A">> >>] }

\* the user's tables after the marks of S were set through Problem.update
clue_marked(S) ==
  [key \in Keys |-> [i \in Range(ClueNItem) |-> [j \in Range(ClueNItem) |->
     IF <<key, i, j, POSITIVE>> \in S THEN POSITIVE
     ELSE IF <<key, i, j, NEGATIVE>> \in S THEN NEGATIVE
     ELSE NEUTRAL]]]

ClueRelationships ==
  {clue_marked(S) : S \in {S \in SUBSET CluePalette : Cardinality(S) <= ClueMaxMarks}}

\* the clue as parsed, and as an earlier round may have left its flag
ClueChoices ==
  { [update_solver(Clue(ClueNItem), g, ClueNItem) EXCEPT !.active = a] :
      g \in ClueGrammars, a \in BOOLEAN }

\* process_all_clues about to evaluate the clue: the tensor is the seed of
\* the user's tables after the four structural passes
ClueInit ==
  /\ relationships \in ClueRelationships
  /\ solved_relationships = [key \in Keys |-> neutral_table(ClueNItem)]
  /\ clues \in {<<c>> : c \in ClueChoices}
  /\ result = "init"
  /\ pc = "query"
  /\ \E sp \in {structural_passes(seed_tables(relationships, NCat, ClueNItem))} :
       /\ ~sp.hangs
       /\ combined_tables = sp.t
  /\ any_changed = FALSE
  /\ results = <<>>
  /\ updates = <<>>
  /\ table = <<>>
  /\ table_changed = FALSE

\* process_clue, lines 378-382
ClueQuery ==
  /\ pc = "query"
  /\ \E q \in {relation_queries(clues[1].solver)} :
     \E cells \in {Row([k \in DOMAIN q |-> cell_of(combined_tables, q[k][1], q[k][2])])} :
       IF \E k \in DOMAIN cells : cells[k] = NoCell
       THEN pc' = "raised" /\ UNCHANGED results
       ELSE /\ pc' = "draw"
            /\ results' = Row([k \in DOMAIN q |->
                 << q[k][1], q[k][2],
                    combined_tables[cells[k][1]][cells[k][2]][cells[k][3]][cells[k][4]] >>])
  /\ UNCHANGED <<relationships, solved_relationships, clues, result, combined_tables,
                 any_changed, updates, matrix_vars>>

\* process_clue, line 384
ClueDraw ==
  /\ pc = "draw"
  /\ \E drawn \in {updates_of(clues[1], results)} :
       IF drawn.error THEN pc' = "raised" /\ UNCHANGED updates
       ELSE pc' = "write" /\ updates' = drawn.conclusions
  /\ UNCHANGED <<relationships, solved_relationships, clues, result, combined_tables,
                 any_changed, results, matrix_vars>>

\* process_clue, lines 385-401
ClueWrite ==
  /\ pc = "write"
  /\ \E done \in {clue_updates(write_start(combined_tables), updates, 1)} :
       /\ combined_tables' = done.t
       /\ IF done.error
          THEN pc' = "raised" /\ UNCHANGED <<clues, any_changed>>
          ELSE /\ pc' = "processed"
               /\ any_changed' = done.changed
               /\ clues' = << [clues[1] EXCEPT !.active =
                      clue_deactivation(updates, done.no_neutral, clues[1].active)] >>
  /\ UNCHANGED <<relationships, solved_relationships, result, results, updates, matrix_vars>>

ClueNext == ClueQuery \/ ClueDraw \/ ClueWrite

SpecClue == ClueInit /\ [][ClueNext]_vars

(***************************************************************************)
(* The exactly-one pass on one table: the loop of apply_exactly_one_logic  *)
(* with each call of step_apply_exactly_one_logic followed loop by loop    *)
(***************************************************************************)

MatrixNItem == 3

\* the tables the pass may be handed: clue conclusions overwrite any cell
\* (process_clue, lines 391-396), so every filling of a table can reach it
Matrices == [Range(MatrixNItem) -> [Range(MatrixNItem) -> RelationState]]

MatrixInit ==
  /\ relationships = [key \in Keys |-> neutral_table(MatrixNItem)]
  /\ solved_relationships = [key \in Keys |-> neutral_table(MatrixNItem)]
  /\ clues = <<>>
  /\ result = "init"
  /\ pc = "rows"
  /\ combined_tables = <<>>
  /\ any_changed = FALSE
  /\ results = <<>>
  /\ updates = <<>>
  /\ table \in Matrices
  /\ table_changed = FALSE

\* step_apply_exactly_one_logic, the loop over the rows (lines 116-129)
MatrixRows ==
  /\ pc = "rows"
  /\ table' = exactly_one_rows(table)
  /\ table_changed' = \E i \in DOMAIN table : ~line_skipped(table[i], Size(table))
  /\ pc' = "cols"
  /\ UNCHANGED <<relationships, solved_relationships, clues, result, combined_tables,
                 any_changed, results, updates>>

\* step_apply_exactly_one_logic, the loop over the columns (lines 130-142)
MatrixCols ==
  /\ pc = "cols"
  /\ \E cols \in {exactly_one_cols(table)} :
       table' = Table([i \in DOMAIN table |-> [j \in DOMAIN table |-> cols[j][i]]])
  /\ table_changed' =
       (table_changed \/ \E j \in DOMAIN table : ~line_skipped(Column(table, j), Size(table)))
  /\ pc' = "returned"
  /\ UNCHANGED <<relationships, solved_relationships, clues, result, combined_tables,
                 any_changed, results, updates>>

\* apply_exactly_one_logic, the test of its while loop (lines 151-154)
MatrixLoop ==
  /\ pc = "returned"
  /\ IF table_changed
     THEN pc' = "rows" /\ any_changed' = TRUE /\ table_changed' = FALSE
     ELSE pc' = "stable" /\ UNCHANGED <<any_changed, table_changed>>
  /\ UNCHANGED <<relationships, solved_relationships, clues, result, combined_tables,
                 results, updates, table>>

MatrixNext == MatrixRows \/ MatrixCols \/ MatrixLoop

SpecMatrix == MatrixInit /\ [][MatrixNext]_vars

\* the interpreter keeps executing a pass that can take a step
FairMatrix == MatrixInit /\ [][MatrixNext]_vars /\ WF_vars(MatrixNext)

(***************************************************************************)
(* One evaluation of a PairEqual clue on a Problem of four categories      *)
(***************************************************************************)

PairMaxMarks == 3

\* cells the user may have marked: the four cells the clue asks about
PairPalette ==
  { <<key, 0, 0, state>> :
      key \in {<<0, 2>>, <<0, 3>>, <<2, 1>>, <<3, 1>>}, state \in {POSITIVE, NEGATIVE} }

\* the user's tables after the marks of S were set through Problem.update
pair_marked(S) ==
  [key \in CrossKeys |-> [i \in Range(ClueNItem) |-> [j \in Range(ClueNItem) |->
     IF <<key, i, j, POSITIVE>> \in S THEN POSITIVE
     ELSE IF <<key, i, j, NEGATIVE>> \in S THEN NEGATIVE
     ELSE NEUTRAL]]]

PairRelationships ==
  {pair_marked(S) : S \in {S \in SUBSET PairPalette : Cardinality(S) <= PairMaxMarks}}

\* the parsings the clue may have been given
PairGrammars ==
  { [prefix |-> "PairEqual",
     parts |-> << <<"A", 1>>, <<"B", 1>>, <<"C", 1>>, <<"D", 1>> >>],
    [prefix |-> "PairEqual",
     parts |-> << <<"A", 1>>, <<"A", 2>>, <<"C", 1>>, <<"D", 1>> >>] }

\* process_all_clues about to evaluate the clue: the tensor is the seed of
\* the user's tables after the four structural passes
PairInit ==
  /\ relationships \in PairRelationships
  /\ solved_relationships = [key \in CrossKeys |-> neutral_table(ClueNItem)]
  /\ clues \in {<<update_solver(Clue(ClueNItem), g, ClueNItem)>> : g \in PairGrammars}
  /\ result = "init"
  /\ pc = "query"
  /\ \E sp \in {structural_passes(seed_tables(relationships, CrossNCat, ClueNItem))} :
       /\ ~sp.hangs
       /\ combined_tables = sp.t
  /\ any_changed = FALSE
  /\ results = <<>>
  /\ updates = <<>>
  /\ table = <<>>
  /\ table_changed = FALSE

SpecPair == PairInit /\ [][ClueNext]_vars

(***************************************************************************)
(* Properties                                                              *)
(***************************************************************************)

Cells == Range(NCat) \X Range(NCat) \X Range(NItem) \X Range(NItem)
RunCells == Range(NCat) \X Range(NCat) \X Range(RunNItem) \X Range(RunNItem)
UserCells == Keys \X Range(NItem) \X Range(NItem)

\* the last call into the Problem was a run of draw_conclusions that finished
\* (on its own, or inside an update that was accepted)
Drawn == result \in {"True", "returned"} /\ clues # NoClueList

\* C1: every run of draw_conclusions ends, whatever the user's tables and the
\* clues are: it stores its results, or it raises.
C1_DrawConclusionsTerminates == <>(pc \in {"done", "raised"})

\* C2: an update of a cell the user left Neutral, whose solved state is not
\* Neutral and differs from the state asked for, returns False and changes
\* neither the user's tables, nor the solved tables, nor the clues.
C2_ContradictionRejected ==
  [][\A desired \in BOOLEAN, key \in Keys, row \in Range(NItem), col \in Range(NItem) :
       ( /\ relationships[key][row][col] = NEUTRAL
         /\ solved_relationships[key][row][col]
              \notin {NEUTRAL, new_state_for(NEUTRAL, desired)}
         /\ Update(desired, key, row, col) )
       => ( /\ result' = "False"
            /\ UNCHANGED <<relationships, solved_relationships, clues>> )]_vars

\* an update was refused
C2_Witness == result = "False"

\* C3: after a call that ran draw_conclusions to its end (or an update that was
\* refused), every cell the user has set holds the same state in the solved
\* tables.
C3_UserFactsKept ==
  result \in {"True", "False", "returned"} =>
    \A c \in UserCells :
      relationships[c[1]][c[2]][c[3]] # NEUTRAL =>
        solved_relationships[c[1]][c[2]][c[3]] = relationships[c[1]][c[2]][c[3]]

C5_Symmetry ==
  combined_tables # <<>> =>
    \A c \in Cells :
      combined_tables[c[1]][c[2]][c[3]][c[4]] = combined_tables[c[2]][c[1]][c[4]][c[3]]

\* C6: in the combined tables a run of draw_conclusions finished with, the
\* table of every category against itself is the identity: Positive on the
\* diagonal, Negative elsewhere.
C6_SelfIdentity ==
  combined_tables # <<>> =>
    \A x \in Range(NCat), i \in Range(NItem), j \in Range(NItem) :
      combined_tables[x][x][i][j] = IF i = j THEN POSITIVE ELSE NEGATIVE

\* C7: exactly-one elimination, transposition, pseudo-true elimination and
\* cross-elimination leave every cell that is not Neutral as it is.
C7_StructuralPassesMonotone ==
  [][(pc \in {"exactly_one", "transposition", "pseudo_true", "cross_elimination"}) =>
       \A c \in RunCells :
         combined_tables[c[1]][c[2]][c[3]][c[4]] # NEUTRAL =>
           combined_tables'[c[1]][c[2]][c[3]][c[4]]
             = combined_tables[c[1]][c[2]][c[3]][c[4]] ]_vars

\* the four passes of a round have run on a Problem without clues and have
\* set cells the seed left Neutral
C7_Witness ==
  /\ pc = "clues"
  /\ clues = <<>>
  /\ \E c \in RunCells :
       /\ seed_tables(relationships, NCat, RunNItem)[c[1]][c[2]][c[3]][c[4]] = NEUTRAL
       /\ combined_tables[c[1]][c[2]][c[3]][c[4]] # NEUTRAL
  /\ \E c \in RunCells :
       /\ c[1] # c[2]
       /\ seed_tables(relationships, NCat, RunNItem)[c[1]][c[2]][c[3]][c[4]] # NEUTRAL

\* the clues with their active flags set to flags
flagged(list, flags) == [k \in DOMAIN list |-> [list[k] EXCEPT !.active = flags[k]]]

\* C8: after a run of draw_conclusions that finished, another run gives the
\* same solved tables, whatever the solved tables and the clues' active flags
\* are when it starts.
C8_Idempotent ==
  Drawn =>
    \A flags \in [DOMAIN clues -> BOOLEAN] :
      \A before \in {solved_relationships, [k \in Keys |-> neutral_table(NItem)]} :
        \E r \in {draw_conclusions(relationships, before, flagged(clues, flags), NCat, NItem)} :
          r.outcome = "ok" /\ r.solved = solved_relationships

\* a run finished with facts in the solved tables and left a clue with a
\* solver inactive
C8_Witness ==
  /\ Drawn
  /\ \E k \in DOMAIN clues : ~clues[k].active /\ clues[k].solver.kind # "Unknown"
  /\ \E c \in UserCells : solved_relationships[c[1]][c[2]][c[3]] # NEUTRAL

\* the list without its k-th element
without(list, k) == SubSeq(list, 1, k - 1) \o SubSeq(list, k + 1, Len(list))

\* C9: a run of draw_conclusions gives the solved tables it gives with every
\* inactive clue removed from the list.
C9_InactiveContributesNothing ==
  (Drawn /\ result = "returned") =>
    \A k \in DOMAIN clues :
      ~clues[k].active =>
        draw_conclusions(relationships, solved_relationships, clues, NCat, NItem).solved
        = draw_conclusions(relationships, solved_relationships, without(clues, k),
                           NCat, NItem).solved

\* C10: on a Problem constructed without a clue list no call raises.
C10_NoClueListCompletes == clues = NoClueList => result # "raised"

\* a conclusion the evaluation returned that is Neutral
neutral_concluded == \E k \in DOMAIN updates : updates[k][3] = NEUTRAL

count_of(line, s) == Cardinality({i \in DOMAIN line : line[i] = s})

\* what the exactly-one rule makes of a line with p Positive and g Negative
\* cells: p >= 1 turns its Neutral cells Negative, g = n - 1 turns its one
\* Neutral cell Positive, and any other line is not written
exactly_one_rule(before, after) ==
  IF count_of(before, POSITIVE) >= 1
  THEN \A i \in DOMAIN before :
         after[i] = IF before[i] = NEUTRAL THEN NEGATIVE ELSE before[i]
  ELSE IF count_of(before, NEGATIVE) = MatrixNItem - 1
  THEN \A i \in DOMAIN before :
         after[i] = IF before[i] = NEUTRAL THEN POSITIVE ELSE before[i]
  ELSE after = before

\* C12: the row loop of the exactly-one step applies the rule to every row,
\* the column loop applies it to every column, and when the pass has
\* stabilised no row or column that contains a Positive has a Neutral cell.
C12_ExactlyOneElimination ==
  [][ /\ (pc = "rows" /\ pc' = "cols") =>
          \A i \in Range(MatrixNItem) : exactly_one_rule(table[i], table'[i])
      /\ (pc = "cols" /\ pc' = "returned") =>
          \A j \in Range(MatrixNItem) :
            exactly_one_rule(Column(table, j), Column(table', j))
      /\ (pc' = "stable") =>
          \A k \in Range(MatrixNItem) :
            /\ count_of(table'[k], POSITIVE) >= 1 => count_of(table'[k], NEUTRAL) = 0
            /\ count_of(Column(table', k), POSITIVE) >= 1 =>
                 count_of(Column(table', k), NEUTRAL) = 0 ]_vars

\* every row and every column of the table holds exactly one Positive cell
one_positive_each(t) ==
  \A k \in Range(MatrixNItem) :
    count_of(t[k], POSITIVE) = 1 /\ count_of(Column(t, k), POSITIVE) = 1

\* C13: on a table whose rows and columns each hold exactly one Positive the
\* exactly-one pass leaves the Positive cells where they are, ends, and ends
\* with no Neutral cell (every cell that was not Positive is Negative).
C13_ExactlyOneConvergence ==
  /\ [][ one_positive_each(table) =>
           /\ \A i, j \in Range(MatrixNItem) :
                (table'[i][j] = POSITIVE) <=> (table[i][j] = POSITIVE)
           /\ (pc' = "stable") =>
                \A i, j \in Range(MatrixNItem) : table'[i][j] # NEUTRAL ]_vars
  /\ (one_positive_each(table) ~> (pc = "stable"))

\* a step that wrote such a table and left it without a Neutral cell
C13_Witness ==
  /\ pc = "returned"
  /\ table_changed
  /\ one_positive_each(table)
  /\ \A i, j \in Range(MatrixNItem) : table[i][j] # NEUTRAL

\* the clue under evaluation is an Either clue with options in two categories
either_across == /\ clues[1].solver.kind = "Either"
                 /\ clues[1].solver.option1[1] # clues[1].solver.option2[1]

\* C14: from the results r1 for (primary, opt1) and r2 for (primary, opt2) an
\* Either clue with options in different categories concludes opt1 true
\* (Positive for opt1, Negative for opt2) when r1 is Positive or r2 is
\* Negative, opt2 true when r2 is Positive or r1 is Negative, Neutral for
\* both when both results are Neutral, always opt1-opt2 Negative, and never
\* Positive for both options.
C14_EitherAcrossCategories ==
  [][ (pc = "draw" /\ pc' = "write" /\ either_across) =>
        \E r1 \in {results[1][3]}, r2 \in {results[2][3]},
           sv \in {clues[1].solver} :
          /\ Len(updates') = 3
          /\ updates'[1][1] = sv.primary /\ updates'[1][2] = sv.option1
          /\ updates'[2][1] = sv.primary /\ updates'[2][2] = sv.option2
          /\ updates'[3] = <<sv.option1, sv.option2, NEGATIVE>>
          /\ (r1 = POSITIVE \/ r2 = NEGATIVE) =>
               (updates'[1][3] = POSITIVE /\ updates'[2][3] = NEGATIVE)
          /\ (r2 = POSITIVE \/ r1 = NEGATIVE) =>
               (updates'[2][3] = POSITIVE /\ updates'[1][3] = NEGATIVE)
          /\ (r1 = NEUTRAL /\ r2 = NEUTRAL) =>
               (updates'[1][3] = NEUTRAL /\ updates'[2][3] = NEUTRAL)
          /\ ~(updates'[1][3] = POSITIVE /\ updates'[2][3] = POSITIVE) ]_vars

\* the axis indices at which the results confirm the lesser and the greater
\* item of the ExactGreater clue under evaluation
less_confirmed ==
  {i \in Range(clues[1].solver.n_item) : results[i + 1][3] = POSITIVE}
more_confirmed ==
  {i \in Range(clues[1].solver.n_item) :
     results[i + clues[1].solver.n_item + 1][3] = POSITIVE}

\* what the clue concludes besides the axis: that its items differ, when they
\* are of different categories
they_differ ==
  IF clues[1].solver.item_less[1] # clues[1].solver.item_more[1]
  THEN << <<clues[1].solver.item_less, clues[1].solver.item_more, NEGATIVE>> >>
  ELSE <<>>

\* C15: an ExactGreater clue with gap diff whose lesser item is confirmed at
\* axis index i, the greater one not confirmed, concludes the greater item
\* Positive at index i + diff; with the greater item confirmed at i and the
\* lesser not, the lesser Positive at i - diff; with both confirmed nothing
\* about the axis; and with items of different categories it concludes, in
\* every case, that they differ.
C15_ExactGreaterResolved ==
  [][ (pc = "draw" /\ pc' = "write" /\ clues[1].solver.kind = "ExactGreater") =>
        \E sv \in {clues[1].solver} :
          /\ SubSeq(updates', 1, Len(they_differ)) = they_differ
          /\ (less_confirmed # {} /\ more_confirmed = {}) =>
               \E i \in less_confirmed :
                 updates' = they_differ \o
                   << <<sv.item_more, <<sv.cat_axis, i + sv.diff>>, POSITIVE>> >>
          /\ (more_confirmed # {} /\ less_confirmed = {}) =>
               \E i \in more_confirmed :
                 updates' = they_differ \o
                   << <<sv.item_less, <<sv.cat_axis, i - sv.diff>>, POSITIVE>> >>
          /\ (less_confirmed # {} /\ more_confirmed # {}) =>
               updates' = they_differ ]_vars

\* the clue drew its forced conclusion from one confirmed side, for items of
\* different categories
C15_Witness ==
  /\ pc = "write"
  /\ clues[1].solver.kind = "ExactGreater"
  /\ less_confirmed # {} /\ more_confirmed = {}
  /\ Len(updates) = 2
  /\ updates[2][3] = POSITIVE

\* the unordered pairs of positions of the Uniqueness clue under evaluation
unique_pairs ==
  {c \in (1..Len(clues[1].solver.items)) \X (1..Len(clues[1].solver.items)) : c[1] < c[2]}

\* C16: a Uniqueness clue over k positions asks no queries and concludes
\* Negative for each of its k(k-1)/2 unordered pairs of positions, and when
\* it has been processed each pair (p, q) is Negative in the combined tensor
\* at [p][q] and at the transposed cell [q][p].
C16_UniquenessClue ==
  [][ (clues[1].solver.kind = "Unique") =>
        \E items \in {clues[1].solver.items}, k \in {Len(clues[1].solver.items)} :
          /\ (pc = "query") => (pc' = "draw" /\ results' = <<>>)
          /\ (pc = "draw") =>
               /\ pc' = "write"
               /\ 2 * Len(updates') = k * (k - 1)
               /\ \A c \in unique_pairs : \E n \in DOMAIN updates' :
                    updates'[n] = <<items[c[1]], items[c[2]], NEGATIVE>>
          /\ (pc' = "processed") =>
               \A c \in unique_pairs :
                 \E p \in {items[c[1]]}, q \in {items[c[2]]} :
                   /\ combined_tables'[p[1]][q[1]][p[2]][q[2]] = NEGATIVE
                   /\ combined_tables'[q[1]][p[1]][q[2]][p[2]] = NEGATIVE ]_vars

\* a Uniqueness clue over three positions processed, with cells written
C16_Witness ==
  /\ pc = "processed"
  /\ clues[1].solver.kind = "Unique"
  /\ Len(clues[1].solver.items) = 3
  /\ Len(updates) = 3
  /\ any_changed

\* the one-to-one assignments of the items of a category to those of another
Matchings == {f \in [Range(RunNItem) -> Range(RunNItem)] :
                \A i, j \in Range(RunNItem) : f[i] = f[j] => i = j}

\* a complete solution: for every item of the second and of the third
\* category the item of the first category it is matched with; two
\* positions are related exactly when they belong to the same item of the
\* first category, which makes the matchings consistent by transitivity
owner(sol, cat, item) == IF cat = 0 THEN item ELSE sol[cat][item]
value_in(sol, x, y, i, j) ==
  IF owner(sol, x, i) = owner(sol, y, j) THEN POSITIVE ELSE NEGATIVE

\* the complete solutions that agree with every cell the user marked
agreeing_solutions ==
  {sol \in [{1, 2} -> Matchings] :
     \A key \in Keys, i, j \in Range(RunNItem) :
       relationships[key][i][j] # NEUTRAL =>
         relationships[key][i][j] = value_in(sol, key[1], key[2], i, j)}

\* C17: when draw_conclusions has finished on a Problem whose clues conclude
\* nothing, every cell of the solved tensor that is not Neutral has the value
\* it has in every complete solution agreeing with the user's cells.
C17_StructuralSoundness ==
  (pc = "done" /\ \A k \in DOMAIN clues : clues[k].solver.kind = "Unknown") =>
    \A sol \in agreeing_solutions : \A c \in RunCells :
      combined_tables[c[1]][c[2]][c[3]][c[4]] # NEUTRAL =>
        combined_tables[c[1]][c[2]][c[3]][c[4]] = value_in(sol, c[1], c[2], c[3], c[4])

\* a finished run that concluded cells the user had not marked, on grids
\* that some complete solution agrees with
C17_Witness ==
  /\ pc = "done"
  /\ \A k \in DOMAIN clues : clues[k].solver.kind = "Unknown"
  /\ agreeing_solutions # {}
  /\ \E c \in RunCells :
       /\ c[1] # c[2]
       /\ seed_tables(relationships, NCat, RunNItem)[c[1]][c[2]][c[3]][c[4]] = NEUTRAL
       /\ combined_tables[c[1]][c[2]][c[3]][c[4]] # NEUTRAL

\* the tensor as draw_conclusions seeded it from the user's tables
seeded == seed_tables(relationships, NCat, RunNItem)

CrossCells == Range(CrossNCat) \X Range(CrossNCat) \X Range(RunNItem) \X Range(RunNItem)

\* in tensor t neither the column of item b of category y nor that of item c
\* of category z against category a holds a Positive, and every item of a is
\* Negative against b or Negative against c
cross_condition(t, a, y, z, b, c) ==
  /\ \A r \in Range(RunNItem) : t[a][y][r][b] # POSITIVE /\ t[a][z][r][c] # POSITIVE
  /\ \A r \in Range(RunNItem) : t[a][y][r][b] = NEGATIVE \/ t[a][z][r][c] = NEGATIVE

\* the cell c lies between two categories and meets the condition in t for
\* some third category
cross_eliminated(t, c) ==
  /\ c[1] # c[2]
  /\ \E a \in Range(CrossNCat) \ {c[1], c[2]} : cross_condition(t, a, c[1], c[2], c[3], c[4])

\* C19: for every category a, distinct categories y and z other than a and
\* items b of y and c of z that meet the condition before the pass, the
\* cross-elimination pass leaves the cell (b, c) non-Neutral in both
\* directions, Negative where it was Neutral, and it writes no other cell.
C19_CrossElimination ==
  [][ (pc = "cross_elimination") =>
        \A c \in CrossCells :
          \E before \in {combined_tables[c[1]][c[2]][c[3]][c[4]]},
             after \in {combined_tables'[c[1]][c[2]][c[3]][c[4]]} :
            IF cross_eliminated(combined_tables, c)
            THEN after # NEUTRAL /\ after = IF before = NEUTRAL THEN NEGATIVE ELSE before
            ELSE after = before ]_vars

\* C19 as it holds: the cells that meet the condition before the pass are
\* left non-Neutral in both directions, Negative where they were Neutral;
\* every cell the pass writes was Neutral, is made Negative, and meets the
\* condition on the tensor as the pass leaves it (a cell written earlier in
\* the pass may complete the condition of a cell written later).
C19_CrossEliminationInPass ==
  [][ (pc = "cross_elimination") =>
        \A c \in CrossCells :
          \E before \in {combined_tables[c[1]][c[2]][c[3]][c[4]]},
             after \in {combined_tables'[c[1]][c[2]][c[3]][c[4]]} :
            /\ cross_eliminated(combined_tables, c) =>
                 (after # NEUTRAL /\ after = IF before = NEUTRAL THEN NEGATIVE ELSE before)
            /\ (after # before) =>
                 /\ before = NEUTRAL /\ after = NEGATIVE
                 /\ cross_eliminated(combined_tables', c) ]_vars

\* the pass has written a cell that met the condition before it and a cell
\* that met it only once the pass had written another
C19_Witness ==
  /\ pc = "clues"
  /\ any_changed
  /\ \E c \in CrossCells :
       /\ combined_tables[c[1]][c[2]][c[3]][c[4]] = NEGATIVE
       /\ c[1] # c[2]
       /\ seed_tables(relationships, CrossNCat, RunNItem)[c[1]][c[2]][c[3]][c[4]] = NEUTRAL
       /\ cross_eliminated(combined_tables, c)
       /\ ~cross_eliminated(seed_tables(relationships, CrossNCat, RunNItem), c)

\* the candidate rows of a table: no Positive, and between 2 and
\* floor(n / 2) Neutral cells; the open columns of a row and of a group
candidate_rows(t) ==
  {i \in Range(PseudoNItem) :
     /\ count_of(t[i], POSITIVE) = 0
     /\ 2 <= count_of(t[i], NEUTRAL)
     /\ count_of(t[i], NEUTRAL) <= PseudoNItem \div 2}
open_columns(t, i) == {j \in Range(PseudoNItem) : t[i][j] = NEUTRAL}
group_columns(t, S) == UNION {open_columns(t, i) : i \in S}

\* the Neutral cells of t that the tier of open count k eliminates: outside
\* a group of k candidate rows of at most k open columns each, in one of the
\* group's open columns, which are at most k together
tier_eliminations(t, k) ==
  {c \in Range(PseudoNItem) \X Range(PseudoNItem) :
     /\ t[c[1]][c[2]] = NEUTRAL
     /\ \E S \in SUBSET {i \in candidate_rows(t) : Cardinality(open_columns(t, i)) <= k} :
          /\ Cardinality(S) = k
          /\ Cardinality(group_columns(t, S)) <= k
          /\ c[1] \notin S
          /\ c[2] \in group_columns(t, S)}

\* what the row search may make of a table: it only turns Neutral cells
\* Negative, each changed cell lies outside some group of k candidate rows
\* and in one of the group's open columns, at most k together, and the
\* changes are those of the first tier that eliminates anything
row_searched(before, after) ==
  \E changed \in {{c \in Range(PseudoNItem) \X Range(PseudoNItem) :
                     after[c[1]][c[2]] # before[c[1]][c[2]]}} :
    /\ \A c \in changed :
         /\ before[c[1]][c[2]] = NEUTRAL /\ after[c[1]][c[2]] = NEGATIVE
         /\ \E S \in SUBSET candidate_rows(before) :
              /\ S # {}
              /\ Cardinality(group_columns(before, S)) <= Cardinality(S)
              /\ c[1] \notin S
              /\ c[2] \in group_columns(before, S)
    /\ \A k \in 2..(PseudoNItem \div 2) :
         ( /\ tier_eliminations(before, k) # {}
           /\ \A l \in 2..(k - 1) : tier_eliminations(before, l) = {} )
         => (changed # {} /\ changed \subseteq tier_eliminations(before, k))

produced ==
  /\ clues # NoClueList
  /\ \E r \in {draw_conclusions(relationships, solved_relationships, clues, NCat, NItem)} :
       r.outcome = "ok" /\ r.solved = solved_relationships

\* C23: from a state whose solved tables draw_conclusions produced, an
\* accepted update that sets a Neutral cell of the user, followed by a second
\* update of the same cell, which resets it, leaves the user's tables and the
\* solved tables as they were before the first update.
C23_SetThenReset ==
  [][ \A c \in UserCells :
        ( /\ relationships[c[1]][c[2]][c[3]] = NEUTRAL
          /\ relationships'[c[1]][c[2]][c[3]] # NEUTRAL
          /\ result' # "hung"
          /\ produced ) =>
          \A again \in BOOLEAN :
            \A reset \in {update(relationships', solved_relationships', clues', NCat, NItem,
                                  again, c[1], c[2], c[3])} :
              /\ reset.success /\ reset.outcome = "ok"
              /\ reset.relations = relationships
              /\ reset.solved = solved_relationships ]_vars

\* a reset has just brought the user's tables back to no mark at all, the
\* solved tables hold what the clues alone give, and a cell can be set whose
\* update derives further facts
C23_Witness ==
  /\ result = "True"
  /\ marks(relationships) = 0
  /\ produced
  /\ \E c \in UserCells : solved_relationships[c[1]][c[2]][c[3]] # NEUTRAL
  /\ \E c \in UserCells, desired \in BOOLEAN :
       \E set \in {update(relationships, solved_relationships, clues, NCat, NItem,
                           desired, c[1], c[2], c[3])} :
         /\ set.success /\ set.outcome = "ok"
         /\ \E d \in UserCells :
              d # c /\ set.solved[d[1]][d[2]][d[3]] # solved_relationships[d[1]][d[2]][d[3]]

\* the axis indices the results leave Neutral for the lesser and the greater
\* item of the clue under evaluation
less_open ==
  {i \in Range(clues[1].solver.n_item) : results[i + 1][3] = NEUTRAL}
more_open ==
  {i \in Range(clues[1].solver.n_item) :
     results[i + clues[1].solver.n_item + 1][3] = NEUTRAL}

\* the axis indices an item can still be placed at: the one index it is
\* confirmed at, or else the indices still Neutral for it
open_slots(confirmed, open) ==
  IF confirmed = {} THEN open
  ELSE IF Cardinality(confirmed) = 1 THEN confirmed ELSE {}

\* C22: a VagueGreater clue (more, less, axis) with only less confirmed, at
\* axis index p, concludes more Negative at every index <= p; with only more
\* confirmed, at index p, less Negative at every index >= p; with neither
\* confirmed, m the largest index still Neutral for more and l the smallest
\* still Neutral for less, less Negative at every index >= m, more Negative
\* at every index <= l and Neutral for the remaining slots; and it never
\* concludes Negative for a slot used by a placement of less strictly below
\* more on slots still open for them.
C22_VagueGreater ==
  [][ (pc = "draw" /\ pc' = "write" /\ clues[1].solver.kind = "VagueGreater") =>
        \E sv \in {clues[1].solver}, drawn \in {{updates'[k] : k \in DOMAIN updates'}} :
          /\ \A p \in Range(sv.n_item) :
               (less_confirmed = {p} /\ more_confirmed = {}) =>
                 \A i \in 0..p : <<sv.item_more, <<sv.cat_axis, i>>, NEGATIVE>> \in drawn
          /\ \A p \in Range(sv.n_item) :
               (more_confirmed = {p} /\ less_confirmed = {}) =>
                 \A i \in p..(sv.n_item - 1) :
                   <<sv.item_less, <<sv.cat_axis, i>>, NEGATIVE>> \in drawn
          /\ (less_confirmed = {} /\ more_confirmed = {}
                /\ less_open # {} /\ more_open # {}) =>
               \E m \in more_open, l \in less_open :
                 /\ \A i \in more_open : i <= m
                 /\ \A i \in less_open : l <= i
                 /\ updates' = they_differ \o
                      Pairwise(RangeSeq(sv.n_item),
                        LAMBDA i : <<sv.item_less, <<sv.cat_axis, i>>,
                                     IF i >= m THEN NEGATIVE ELSE NEUTRAL>>,
                        LAMBDA i : <<sv.item_more, <<sv.cat_axis, i>>,
                                     IF i <= l THEN NEGATIVE ELSE NEUTRAL>>)
          /\ \A pl \in open_slots(less_confirmed, less_open),
                pm \in open_slots(more_confirmed, more_open) :
               pl < pm =>
                 /\ <<sv.item_less, <<sv.cat_axis, pl>>, NEGATIVE>> \notin drawn
                 /\ <<sv.item_more, <<sv.cat_axis, pm>>, NEGATIVE>> \notin drawn ]_vars

\* with neither item confirmed the clue excluded slots at both ends of the
\* axis and left a placement open
C22_Witness ==
  /\ pc = "write"
  /\ clues[1].solver.kind = "VagueGreater"
  /\ less_confirmed = {} /\ more_confirmed = {}
  /\ \E pl \in less_open, pm \in more_open : pl < pm
  /\ \E i \in Range(clues[1].solver.n_item - 1) :
       <<clues[1].solver.item_less, <<clues[1].solver.cat_axis, i>>, NEGATIVE>>
         \in {updates[k] : k \in DOMAIN updates}
  /\ \E i \in Range(clues[1].solver.n_item) :
       <<clues[1].solver.item_more, <<clues[1].solver.cat_axis, i>>, NEUTRAL>>
         \in {updates[k] : k \in DOMAIN updates}

\* C24: every conclusion an ExactGreater clue emits addresses an axis index in
\* 0..n-1, the index forced from a confirmed side included, and the writing
\* of its conclusions does not raise: no cell is written at an index outside
\* the axis or at one that wraps around to its other end.
C24_ExactGreaterInRange ==
  [][ (clues[1].solver.kind = "ExactGreater") =>
        /\ (pc = "draw" /\ pc' = "write") =>
             \A k \in DOMAIN updates' :
               /\ updates'[k][1][2] \in Range(clues[1].solver.n_item)
               /\ updates'[k][2][2] \in Range(clues[1].solver.n_item)
        /\ pc = "write" => pc' # "raised" ]_vars

\* C21: from the results q1..q4 for (a,c), (a,d), (b,c), (b,d) a PairEqual
\* clue over four categories concludes the straight pairing (a-c and b-d
\* Positive, a-d and b-c Negative) whenever q1 is Positive, q2 Negative, q3
\* Negative or q4 Positive, the cross pairing (a-d and b-c Positive, a-c and
\* b-d Negative) whenever q1 is Negative, q2 Positive, q3 Positive or q4
\* Negative, and Neutral for all four when neither holds.
C21_PairEqualAcrossCategories ==
  [][ ( /\ pc = "draw" /\ pc' = "write"
        /\ clues[1].solver.kind = "PairEqual"
        /\ \E cats \in {<< clues[1].solver.pair1[1][1], clues[1].solver.pair1[2][1],
                            clues[1].solver.pair2[1][1], clues[1].solver.pair2[2][1] >>} :
             \A m, n \in 1..4 : m # n => cats[m] # cats[n] ) =>
        \E q \in {[k \in 1..4 |-> results[k][3]]}, sv \in {clues[1].solver} :
        \E straight \in {q[1] = POSITIVE \/ q[2] = NEGATIVE
                          \/ q[3] = NEGATIVE \/ q[4] = POSITIVE},
           cross \in {q[1] = NEGATIVE \/ q[2] = POSITIVE
                       \/ q[3] = POSITIVE \/ q[4] = NEGATIVE},
           pairing \in {{<<updates'[k][1], updates'[k][2], updates'[k][3]>> :
                          k \in DOMAIN updates'}} :
          /\ straight =>
               {<<sv.pair1[1], sv.pair2[1], POSITIVE>>, <<sv.pair1[2], sv.pair2[2], POSITIVE>>,
                <<sv.pair1[1], sv.pair2[2], NEGATIVE>>, <<sv.pair1[2], sv.pair2[1], NEGATIVE>>}
                 \subseteq pairing
          /\ cross =>
               {<<sv.pair1[1], sv.pair2[2], POSITIVE>>, <<sv.pair1[2], sv.pair2[1], POSITIVE>>,
                <<sv.pair1[1], sv.pair2[1], NEGATIVE>>, <<sv.pair1[2], sv.pair2[2], NEGATIVE>>}
                 \subseteq pairing
          /\ (~straight /\ ~cross) =>
               {<<sv.pair1[1], sv.pair2[1], NEUTRAL>>, <<sv.pair1[2], sv.pair2[2], NEUTRAL>>,
                <<sv.pair1[1], sv.pair2[2], NEUTRAL>>, <<sv.pair1[2], sv.pair2[1], NEUTRAL>>}
                 \subseteq pairing ]_vars

====
